---- MODULE Spec2Model ----
(***************************************************************************)
(* Model of the two containers of the repository:                          *)
(*   - dro::detail::hash_flat_base (include/dro/hash_flat_map.hpp), the    *)
(*     hash + red-black-tree hybrid, instantiated as hash_flat_set<int>    *)
(*     with std::less, std::equal_to and either the identity hash of       *)
(*     std::hash<int> or a hasher with two values;                         *)
(*   - dro::details::FlatRBTree (include/dro/flat-rb-tree.hpp), the        *)
(*     standalone flat tree, instantiated as FlatSet<int>.                 *)
(* A run constructs one of them and makes insert and erase calls on it;    *)
(* the reference tree of the validation tests is given the same calls.     *)
(*                                                                         *)
(* The store tree_ is a function from slot index to a node record.  One    *)
(* container value is a record (the fields of the class plus four ghost    *)
(* fields used while an operation runs):                                   *)
(*   oob   - the operation read or wrote tree_[i] for an i outside the     *)
(*           vector (undefined behaviour in the build);                    *)
(*   hang  - a loop of the operation never ends;                           *)
(*   exc   - the exception the operation threw ("none" if it returned);    *)
(*   ghost - the contents of the memory that such an access reaches.       *)
(* Every member function is an operator from container value to container  *)
(* value, statements translated in source order, loops as RECURSIVE        *)
(* operators.                                                              *)
(***************************************************************************)
EXTENDS Integers, Sequences, FiniteSets, TLC

\* ------------------------------------------------------------------ bounds
\* keys offered to insert/erase are 0..MaxKey
MaxKey == 4
\* capacity the hybrid is constructed with (hash_flat_set's default is 2)
InitCapacity == 2
\* width in bits of the modelled size_type
IndexBits == 6
\* number of calls made on the container in one run
MaxCalls == 6

\* ------------------------------------------------------------- constants
empty_index_ == 2^IndexBits - 1
RED_ == FALSE
BLACK_ == TRUE
load_factor_ == 1
\* hashable_ratio_ = 0.9F, kept as the fraction HashableNum / HashableDen
HashableNum == 9
HashableDen == 10
growth_multiple_ == 2

\* FlatRBTree(size_type capacity = 1, ...)
FlatInitCapacity == 1

Keys == 0..MaxKey

\* ------------------------------------------- fingerprint_full_clr_ word
\* bit 0: full, bit 1: colour (1 = black), the rest: fingerprint
_get_full(w) == w % 2 = 1
_get_color(w) == (w \div 2) % 2 = 1
_get_fingerprint(w) == w \div 4
_set_red(w) == IF _get_color(w) THEN w - 2 ELSE w
_set_black(w) == IF _get_color(w) THEN w ELSE w + 2
\* variant of _set_color that writes the colour over the whole word but the
\* full bit
_set_color_over_fingerprint(w, color) == IF color THEN (w % 2) + 2 ELSE w % 2
_set_color(w, color) == IF color THEN _set_red(w) + 2 ELSE _set_red(w)
\* variant of _set_empty that leaves the full bit set
_set_empty_keeps_full(w) == w
_set_empty(w) == IF _get_full(w) THEN w - 1 ELSE w
_set_full(w) == IF _get_full(w) THEN w ELSE w + 1
\* variant of _set_fingerprint that does not mark the slot full
_set_fingerprint_not_full(hash) == _set_red(hash)
_set_fingerprint(hash) == _set_full(_set_red(hash))

\* the hasher Hash of the instantiation, hash_(key): std::hash<int>, which
\* in libstdc++ is the identity, or a hasher that keeps the low bit of the
\* key, so that keys collide in every bucket array
Hashers == {"std::hash", "low_bit"}
_hash(st, key) == IF st.hash_ = "std::hash" THEN key ELSE key % 2

\* ------------------------------------------------------------ node store
\* flatnode: value-initialised members are all zero
flatnode ==
  [pair_ |-> 0, fingerprint_full_clr_ |-> 0, next_ |-> 0,
   parent_ |-> 0, left_ |-> 0, right_ |-> 0]

InStore(st, i) == i \in DOMAIN st.tree_

\* tree_[i]; outside the vector the access reaches foreign memory
Rd(st, i) == IF InStore(st, i) THEN st.tree_[i] ELSE st.ghost

\* marks an access to tree_[i]
Touch(st, i) == IF InStore(st, i) THEN st ELSE [st EXCEPT !.oob = TRUE]

Wr(st, i, node) ==
  IF InStore(st, i) THEN [st EXCEPT !.tree_[i] = node]
  ELSE [st EXCEPT !.ghost = node, !.oob = TRUE]

\* tree_[i].f = v
SetField(st, i, f, v) == Wr(st, i, [Rd(st, i) EXCEPT ![f] = v])

\* the colour and full bits of tree_[i].fingerprint_full_clr_
SetBlack(st, i) ==
  SetField(st, i, "fingerprint_full_clr_",
           _set_black(Rd(st, i).fingerprint_full_clr_))
SetRed(st, i) ==
  SetField(st, i, "fingerprint_full_clr_",
           _set_red(Rd(st, i).fingerprint_full_clr_))
SetColor(st, i, c) ==
  SetField(st, i, "fingerprint_full_clr_",
           _set_color(Rd(st, i).fingerprint_full_clr_, c))
SetEmpty(st, i) ==
  SetField(st, i, "fingerprint_full_clr_",
           _set_empty(Rd(st, i).fingerprint_full_clr_))

\* std::greater<int>, the other comparator of the validation tests
compare_greater(a, b) == a > b

\* std::less<int> and std::equal_to<int>
compare_(a, b) == a < b
equal_(a, b) == a = b

\* ------------------------------------------------------------ constructor
\* hash_flat_base(capacity): capacity_+1 slots, the hashable region is the
\* first capacity*0.9 of them, the collision region starts right after it.
\* The hybrid is modelled with a size_type narrower than int (uint8_t,
\* uint16_t): capacity_ + 1 is computed in int and does not wrap.
hash_flat_base(capacity, hash, ghost) ==
  LET hc == (capacity * HashableNum) \div HashableDen
      slots == capacity + 1
  IN [tree_ |-> [i \in 0..(slots - 1) |-> flatnode],
      size_ |-> 0,
      capacity_ |-> capacity,
      hashable_capacity_ |-> hc,
      collision_head_ |-> hc,
      collision_tail_ |-> hc,
      root_ |-> empty_index_,
      first_index_cache_ |-> empty_index_,
      last_index_cache_ |-> empty_index_,
      oob |-> FALSE,
      hang |-> FALSE,
      exc |-> IF capacity < 1 THEN "invalid_argument" ELSE "none",
      ghost |-> ghost,
      hash_ |-> hash]

\* number of bits of n (64 - clzl(n) for n > 0)
RECURSIVE BitLen(_)
BitLen(n) == IF n = 0 THEN 0 ELSE 1 + BitLen(n \div 2)

_index_from_hash(st, hash) ==
  LET mask == 2^BitLen(st.hashable_capacity_) - 1
      index == hash % (mask + 1)
  IN IF index >= st.hashable_capacity_ THEN index - st.hashable_capacity_
     ELSE index

\* bound on the iterations of a loop that only reads: a walk that visits
\* more nodes than there are slots has entered a cycle
Fuel(st) == Cardinality(DOMAIN st.tree_) + 2

\* ---------------------------------------------------------------- rotations
_rotate_parents(st, index, child) ==
  LET parent == Rd(st, index).parent_
      LinkParent(s) ==
        IF parent = empty_index_ THEN [s EXCEPT !.root_ = child]
        ELSE IF index = Rd(s, parent).left_
        THEN SetField(s, parent, "left_", child)
        ELSE SetField(s, parent, "right_", child)
  IN LinkParent(SetField(Touch(st, index), child, "parent_", parent))

_rotate_left(st, index) ==
  LET child == Rd(st, index).right_
      index_right == Rd(st, child).left_
      MoveInner(s) ==
        IF index_right # empty_index_
        THEN SetField(s, index_right, "parent_", index) ELSE s
  IN SetField(
       SetField(
         _rotate_parents(
           MoveInner(SetField(Touch(Touch(st, index), child), index,
                              "right_", index_right)),
           index, child),
         child, "left_", index),
       index, "parent_", child)

_rotate_right(st, index) ==
  LET child == Rd(st, index).left_
      index_left == Rd(st, child).right_
      MoveInner(s) ==
        IF index_left # empty_index_
        THEN SetField(s, index_left, "parent_", index) ELSE s
  IN SetField(
       SetField(
         _rotate_parents(
           MoveInner(SetField(Touch(Touch(st, index), child), index,
                              "left_", index_left)),
           index, child),
         child, "right_", index),
       index, "parent_", child)

\* --------------------------------------------------------- insert fix-up
_update_colors(st, uncle, parent, grandparent) ==
  SetBlack(SetBlack(SetRed(st, grandparent), parent), uncle)

\* the rotate branch of _fix_insert; yields the state and the new node
FixInsertRotate(st, node, parent, grandparent) ==
  LET left_side == (parent = Rd(st, grandparent).left_)
      inner == IF left_side THEN node = Rd(st, parent).right_
               ELSE node = Rd(st, parent).left_
      parent1 == IF inner THEN node ELSE parent
      SwapColors(s) ==
        SetColor(SetColor(Touch(Touch(s, parent1), grandparent), grandparent,
                          _get_color(Rd(s, parent1).fingerprint_full_clr_)),
                 parent1,
                 _get_color(Rd(s, grandparent).fingerprint_full_clr_))
  IN [st |-> SwapColors(
               IF left_side
               THEN _rotate_right(IF inner THEN _rotate_left(st, parent)
                                  ELSE st,
                                  grandparent)
               ELSE _rotate_left(IF inner THEN _rotate_right(st, parent)
                                 ELSE st,
                                 grandparent)),
      node |-> parent1]

RECURSIVE FixInsertLoop(_, _, _, _)
FixInsertLoop(st, node, parent, fuel) ==
  IF node = st.root_ THEN st
  ELSE IF _get_color(Rd(st, node).fingerprint_full_clr_) # RED_ THEN Touch(st, node)
  ELSE IF _get_color(Rd(st, parent).fingerprint_full_clr_) # RED_ THEN Touch(Touch(st, node), parent)
  ELSE IF fuel = 0 THEN [st EXCEPT !.hang = TRUE]
  ELSE
    LET grandparent == Rd(st, parent).parent_
        uncle == IF parent = Rd(st, grandparent).left_
                 THEN Rd(st, grandparent).right_
                 ELSE Rd(st, grandparent).left_
        Touched(s) ==
          IF uncle # empty_index_
          THEN Touch(Touch(Touch(Touch(s, node), parent), grandparent), uncle)
          ELSE Touch(Touch(Touch(s, node), parent), grandparent)
        Recoloured(s) ==
          FixInsertLoop(s, grandparent, Rd(s, grandparent).parent_, fuel - 1)
        Rotated(r) ==
          FixInsertLoop(r.st, r.node, Rd(r.st, r.node).parent_, fuel - 1)
    IN IF uncle # empty_index_ /\ _get_color(Rd(st, uncle).fingerprint_full_clr_) = RED_
       THEN Recoloured(_update_colors(Touched(st), uncle, parent, grandparent))
       ELSE Rotated(FixInsertRotate(Touched(st), node, parent, grandparent))

_fix_insert(st, node) ==
  LET BlackRoot(s) == SetBlack(s, s.root_)
  IN BlackRoot(FixInsertLoop(Touch(st, node), node, Rd(st, node).parent_,
                             2 * Fuel(st)))

\* ---------------------------------------------------------- erase fix-up
\* yields the state and the (possibly refreshed) sibling
_check_sibling_red(st, sibling, parent, is_left) ==
  LET Refreshed(s) ==
        [st |-> Touch(s, parent),
         sibling |-> IF is_left THEN Rd(s, parent).right_
                     ELSE Rd(s, parent).left_]
  IN IF _get_color(Rd(st, sibling).fingerprint_full_clr_) # RED_
     THEN [st |-> Touch(st, sibling), sibling |-> sibling]
     ELSE IF is_left
     THEN Refreshed(_rotate_left(
                      SetRed(SetBlack(Touch(st, sibling), sibling), parent),
                      parent))
     ELSE Refreshed(_rotate_right(
                      SetRed(SetBlack(Touch(st, sibling), sibling), parent),
                      parent))

\* TRUE when both children of the sibling are black or absent
SiblingChildrenBlack(st, sibling) ==
  /\ \/ Rd(st, sibling).left_ = empty_index_
     \/ _get_color(Rd(st, Rd(st, sibling).left_).fingerprint_full_clr_) = BLACK_
  /\ \/ Rd(st, sibling).right_ = empty_index_
     \/ _get_color(Rd(st, Rd(st, sibling).right_).fingerprint_full_clr_) = BLACK_

\* yields the state, whether the sibling was recoloured, and the new
\* index and parent
_check_sibling_black(st, sibling, index, parent) ==
  LET MoveUp(s) ==
        [st |-> Touch(s, parent), done |-> TRUE, index |-> parent,
         parent |-> Rd(s, parent).parent_]
  IN IF SiblingChildrenBlack(st, sibling)
     THEN MoveUp(SetRed(Touch(st, sibling), sibling))
     ELSE [st |-> Touch(st, sibling), done |-> FALSE, index |-> index,
           parent |-> parent]

_fix_erase_left(st, sibling, parent) ==
  LET far_black == \/ Rd(st, sibling).right_ = empty_index_
                   \/ _get_color(Rd(st, Rd(st, sibling).right_).fingerprint_full_clr_) = BLACK_
      NearBlack(s) == IF Rd(s, sibling).left_ # empty_index_
                      THEN SetBlack(s, Rd(s, sibling).left_)
                      ELSE s
      Recolour(s, sibling1) ==
        SetBlack(SetColor(Touch(Touch(s, sibling), parent), sibling1,
                          _get_color(Rd(s, parent).fingerprint_full_clr_)),
                 parent)
      FarBlack(s, sibling1) ==
        IF Rd(s, sibling1).right_ # empty_index_
        THEN SetBlack(s, Rd(s, sibling1).right_)
        ELSE s
      Rotated(s) ==
        FarBlack(Recolour(s, Rd(s, parent).right_), Rd(s, parent).right_)
  IN IF far_black
     THEN Rotated(_rotate_right(SetRed(NearBlack(st), sibling), sibling))
     ELSE FarBlack(Recolour(st, sibling), sibling)

_fix_erase_right(st, sibling, parent) ==
  LET far_black == \/ Rd(st, sibling).left_ = empty_index_
                   \/ _get_color(Rd(st, Rd(st, sibling).left_).fingerprint_full_clr_) = BLACK_
      NearBlack(s) == IF Rd(s, sibling).right_ # empty_index_
                      THEN SetBlack(s, Rd(s, sibling).right_)
                      ELSE s
      Recolour(s, sibling1) ==
        SetBlack(SetColor(Touch(Touch(s, sibling), parent), sibling1,
                          _get_color(Rd(s, parent).fingerprint_full_clr_)),
                 parent)
      FarBlack(s, sibling1) ==
        IF Rd(s, sibling1).left_ # empty_index_
        THEN SetBlack(s, Rd(s, sibling1).left_)
        ELSE s
      Rotated(s) ==
        FarBlack(Recolour(s, Rd(s, parent).left_), Rd(s, parent).left_)
  IN IF far_black
     THEN Rotated(_rotate_left(SetRed(NearBlack(st), sibling), sibling))
     ELSE FarBlack(Recolour(st, sibling), sibling)

\* the while loop of _fix_erase; yields the state and the final index
RECURSIVE FixEraseLoop(_, _, _, _)
FixEraseLoop(st, index, parent, fuel) ==
  IF index = st.root_ THEN [st |-> st, index |-> index]
  ELSE IF index # empty_index_ /\ _get_color(Rd(st, index).fingerprint_full_clr_) # BLACK_
  THEN [st |-> st, index |-> index]
  ELSE IF fuel = 0 THEN [st |-> [st EXCEPT !.hang = TRUE], index |-> index]
  ELSE
    LET is_left == (index = Rd(st, parent).left_)
        AtRoot(s) == [st |-> s, index |-> s.root_]
        CheckBlack(r1) ==
          [sibling |-> r1.sibling]
            @@ _check_sibling_black(r1.st, r1.sibling, index, parent)
        Decide(r2) ==
          IF r2.done THEN FixEraseLoop(r2.st, r2.index, r2.parent, fuel - 1)
          ELSE IF is_left
          THEN AtRoot(_rotate_left(
                        _fix_erase_left(r2.st, r2.sibling, parent), parent))
          ELSE AtRoot(_rotate_right(
                        _fix_erase_right(r2.st, r2.sibling, parent), parent))
    IN Decide(CheckBlack(
                _check_sibling_red(Touch(st, parent),
                                   IF is_left THEN Rd(st, parent).right_
                                   ELSE Rd(st, parent).left_,
                                   parent, is_left)))

_fix_erase(st, index, parent) ==
  LET BlackIndex(r) == IF r.index # empty_index_ THEN SetBlack(r.st, r.index)
                       ELSE r.st
  IN BlackIndex(FixEraseLoop(st, index, parent, 2 * Fuel(st)))

\* ------------------------------------------------------- read-only walks
\* A const member function yields [v, hang, oob]: its result, whether its
\* loop never ends, and whether it accessed memory outside the vector.
Res(v, hang, oob) == [v |-> v, hang |-> hang, oob |-> oob]

\* merges the flags of a const member function's run into the state
Flag(st, r) == [st EXCEPT !.hang = @ \/ r.hang, !.oob = @ \/ r.oob]

\* while (left != empty_index_) { index = left; left = tree_[index].left_; }
RECURSIVE DescendLeft(_, _, _, _)
DescendLeft(st, index, oob, fuel) ==
  LET o == oob \/ ~InStore(st, index)
      left == Rd(st, index).left_
  IN IF left = empty_index_ THEN Res(index, FALSE, o)
     ELSE IF fuel = 0 THEN Res(empty_index_, TRUE, o)
     ELSE DescendLeft(st, left, o, fuel - 1)

RECURSIVE DescendRight(_, _, _, _)
DescendRight(st, index, oob, fuel) ==
  LET o == oob \/ ~InStore(st, index)
      right == Rd(st, index).right_
  IN IF right = empty_index_ THEN Res(index, FALSE, o)
     ELSE IF fuel = 0 THEN Res(empty_index_, TRUE, o)
     ELSE DescendRight(st, right, o, fuel - 1)

_min_value_index(st, index) ==
  DescendLeft(st, Rd(st, index).right_, ~InStore(st, index), Fuel(st))

\* the backtrack loop of _next: climbs while index is a right child
RECURSIVE ClimbFromRight(_, _, _, _, _)
ClimbFromRight(st, index, parent, oob, fuel) ==
  IF parent # empty_index_ /\ index = Rd(st, parent).right_
  THEN IF fuel = 0 THEN Res(empty_index_, TRUE, oob)
       ELSE ClimbFromRight(st, parent, Rd(st, parent).parent_,
                           oob \/ ~InStore(st, parent), fuel - 1)
  ELSE IF parent = st.root_ /\ index = Rd(st, parent).right_
  THEN Res(empty_index_, FALSE, oob \/ ~InStore(st, parent))
  ELSE Res(parent, FALSE,
           oob \/ ((parent # empty_index_ \/ parent = st.root_)
                   /\ ~InStore(st, parent)))

_next(st, index) ==
  IF index = empty_index_ THEN Res(empty_index_, FALSE, FALSE)
  ELSE IF Rd(st, index).right_ # empty_index_
  THEN DescendLeft(st, Rd(st, index).right_, ~InStore(st, index), Fuel(st))
  ELSE ClimbFromRight(st, index, Rd(st, index).parent_, ~InStore(st, index),
                      Fuel(st))

RECURSIVE ClimbFromLeft(_, _, _, _, _)
ClimbFromLeft(st, index, parent, oob, fuel) ==
  IF parent # empty_index_ /\ index = Rd(st, parent).left_
  THEN IF fuel = 0 THEN Res(empty_index_, TRUE, oob)
       ELSE ClimbFromLeft(st, parent, Rd(st, parent).parent_,
                          oob \/ ~InStore(st, parent), fuel - 1)
  ELSE IF parent = st.root_ /\ index = Rd(st, parent).left_
  THEN Res(empty_index_, FALSE, oob \/ ~InStore(st, parent))
  ELSE Res(parent, FALSE,
           oob \/ ((parent # empty_index_ \/ parent = st.root_)
                   /\ ~InStore(st, parent)))

_prev(st, index) ==
  IF index = empty_index_ THEN Res(empty_index_, FALSE, FALSE)
  ELSE IF Rd(st, index).left_ # empty_index_
  THEN DescendRight(st, Rd(st, index).left_, ~InStore(st, index), Fuel(st))
  ELSE ClimbFromLeft(st, index, Rd(st, index).parent_, ~InStore(st, index),
                     Fuel(st))

_first(st) == st.first_index_cache_
_last(st) == st.last_index_cache_

\* the descent loop of _find_parent_location
RECURSIVE FindParentLoop(_, _, _, _, _, _)
FindParentLoop(st, key, node, parent, oob, fuel) ==
  IF node = empty_index_ THEN Res(parent, FALSE, oob)
  ELSE IF fuel = 0 THEN Res(parent, TRUE, oob)
  ELSE FindParentLoop(st, key,
                      IF compare_(key, Rd(st, node).pair_)
                      THEN Rd(st, node).left_ ELSE Rd(st, node).right_,
                      node, oob \/ ~InStore(st, node), fuel - 1)

_find_parent_location(st, key) ==
  FindParentLoop(st, key, st.root_, empty_index_, FALSE, Fuel(st))

RECURSIVE LowerBoundLoop(_, _, _, _, _, _)
LowerBoundLoop(st, key, index, last_index, oob, fuel) ==
  IF index = empty_index_ THEN Res(last_index, FALSE, oob)
  ELSE IF fuel = 0 THEN Res(last_index, TRUE, oob)
  ELSE LET node == Rd(st, index)
           o == oob \/ ~InStore(st, index)
       IN IF equal_(node.pair_, key) THEN Res(index, FALSE, o)
          ELSE IF compare_(node.pair_, key)
          THEN LowerBoundLoop(st, key, node.right_, last_index, o, fuel - 1)
          ELSE LowerBoundLoop(st, key, node.left_, index, o, fuel - 1)

_lower_bound(st, key) ==
  LowerBoundLoop(st, key, st.root_, empty_index_, FALSE, Fuel(st))

RECURSIVE UpperBoundLoop(_, _, _, _, _, _)
UpperBoundLoop(st, key, index, last_index, oob, fuel) ==
  IF index = empty_index_ THEN Res(last_index, FALSE, oob)
  ELSE IF fuel = 0 THEN Res(last_index, TRUE, oob)
  ELSE LET node == Rd(st, index)
           o == oob \/ ~InStore(st, index)
           compare == compare_(node.pair_, key) \/ equal_(node.pair_, key)
       IN IF compare
          THEN UpperBoundLoop(st, key, node.right_, last_index, o, fuel - 1)
          ELSE UpperBoundLoop(st, key, node.left_, index, o, fuel - 1)

_upper_bound(st, key) ==
  UpperBoundLoop(st, key, st.root_, empty_index_, FALSE, Fuel(st))

\* variant of the chain walk of _find that trusts the fingerprint and does
\* not compare the keys
RECURSIVE FindLoopFingerprintOnly(_, _, _, _, _)
FindLoopFingerprintOnly(st, key, index, prev_index, fuel) ==
  LET bucket == Rd(st, index)
      w == bucket.fingerprint_full_clr_
  IN IF /\ _get_full(w)
        /\ _get_fingerprint(_hash(st, key)) = _get_fingerprint(w)
     THEN [first |-> index, second |-> prev_index, hang |-> FALSE]
     ELSE IF bucket.next_ = 0
     THEN [first |-> empty_index_, second |-> prev_index, hang |-> FALSE]
     ELSE IF fuel = 0
     THEN [first |-> empty_index_, second |-> prev_index, hang |-> TRUE]
     ELSE FindLoopFingerprintOnly(st, key, bucket.next_, index, fuel - 1)

\* the chain walk of _find; yields [first, second, hang]
RECURSIVE FindLoop(_, _, _, _, _)
FindLoop(st, key, index, prev_index, fuel) ==
  LET bucket == Rd(st, index)
      w == bucket.fingerprint_full_clr_
  IN IF /\ _get_full(w)
        /\ _get_fingerprint(_hash(st, key)) = _get_fingerprint(w)
        /\ equal_(bucket.pair_, key)
     THEN [first |-> index, second |-> prev_index, hang |-> FALSE]
     ELSE IF bucket.next_ = 0
     THEN [first |-> empty_index_, second |-> prev_index, hang |-> FALSE]
     ELSE IF fuel = 0
     THEN [first |-> empty_index_, second |-> prev_index, hang |-> TRUE]
     ELSE FindLoop(st, key, bucket.next_, index, fuel - 1)

_find(st, key) ==
  FindLoop(st, key, _index_from_hash(st, _hash(st, key)), 0, Fuel(st))

\* hash_flat_map: a slot's pair_ stands for the pair of a key and the value
\* mapped to it; the value a key is inserted with is a function of the key
Mapped(key) == key + MaxKey + 1

\* variant of at that takes every lookup for a hit
at_unchecked(st, key) ==
  [v |-> Mapped(Rd(st, _find(st, key).first).pair_), exc |-> "none",
   hang |-> _find(st, key).hang]

\* at(key): yields the value returned, the exception thrown and whether the
\* lookup fails to return
at(st, key) ==
  IF _find(st, key).first # empty_index_
  THEN [v |-> Mapped(Rd(st, _find(st, key).first).pair_), exc |-> "none",
        hang |-> _find(st, key).hang]
  ELSE [v |-> empty_index_, exc |-> "out_of_range",
        hang |-> _find(st, key).hang]

\* variant of clear that leaves the full flags and the chain links of the
\* slots as they are
clear_keeps_slots(st) ==
  [st EXCEPT !.collision_head_ = st.hashable_capacity_,
             !.collision_tail_ = st.hashable_capacity_,
             !.first_index_cache_ = empty_index_,
             !.last_index_cache_ = empty_index_,
             !.root_ = empty_index_,
             !.size_ = 0]

clear(st) ==
  [st EXCEPT !.tree_ = [i \in DOMAIN st.tree_ |->
                          [st.tree_[i] EXCEPT
                             !.fingerprint_full_clr_ = _set_empty(@),
                             !.next_ = 0]],
             !.collision_head_ = st.hashable_capacity_,
             !.collision_tail_ = st.hashable_capacity_,
             !.first_index_cache_ = empty_index_,
             !.last_index_cache_ = empty_index_,
             !.root_ = empty_index_,
             !.size_ = 0]

contains(st, key) == _find(st, key).first # empty_index_

count(st, key) == IF contains(st, key) THEN 1 ELSE 0

\* ------------------------------------------------------- erase helpers
_assign_parent(st, index, parent) ==
  IF index # empty_index_ THEN SetField(st, index, "parent_", parent) ELSE st

_update_children(st, child, parent, erase_index) ==
  IF parent = empty_index_ THEN [st EXCEPT !.root_ = child]
  ELSE IF Rd(st, parent).left_ = erase_index THEN SetField(st, parent, "left_", child)
  ELSE SetField(st, parent, "right_", child)

_transfer_node_data(st, min_index, erase_index) ==
  LET CopyParent(s) ==
        SetField(s, min_index, "parent_", Rd(s, erase_index).parent_)
      CopyColor(s) ==
        SetColor(s, min_index,
                 _get_color(Rd(s, erase_index).fingerprint_full_clr_))
      CopyLeft(s) == SetField(s, min_index, "left_", Rd(s, erase_index).left_)
      CopyRight(s) ==
        SetField(s, min_index, "right_", Rd(s, erase_index).right_)
  IN CopyRight(CopyLeft(CopyColor(CopyParent(
       Touch(Touch(st, min_index), erase_index)))))

\* if (root_ == index_keep) root_ = index_remove;
\* if (root_ == index_remove) root_ = index_keep;
SwapRoot(root, index_keep, index_remove) ==
  LET r1 == IF root = index_keep THEN index_remove ELSE root
  IN IF r1 = index_remove THEN index_keep ELSE r1

_swap_node_position(st, index_keep, index_remove) ==
  LET parent_keep == Rd(st, index_keep).parent_
      parent_remove == Rd(st, index_remove).parent_
      SwapCaches(s) ==
        [s EXCEPT !.first_index_cache_ =
                    IF index_keep = @ THEN index_remove ELSE @,
                  !.last_index_cache_ =
                    IF index_keep = @ THEN index_remove ELSE @]
      \* Swap Parent Index
      SwapParentKeep(s) ==
        IF parent_keep = empty_index_ THEN s
        ELSE IF Rd(s, parent_keep).left_ = index_keep
        THEN SetField(s, parent_keep, "left_", index_remove)
        ELSE SetField(s, parent_keep, "right_", index_remove)
      SwapParentRemove(s) ==
        IF parent_remove = empty_index_ THEN s
        ELSE IF Rd(s, parent_remove).left_ = index_remove
        THEN SetField(s, parent_remove, "left_", index_keep)
        ELSE SetField(s, parent_remove, "right_", index_keep)
      \* Check if Nodes are related
      RelatedKeep(s) ==
        IF parent_keep = index_remove
        THEN SetField(s, index_keep, "parent_", index_keep) ELSE s
      RelatedRemove(s) ==
        IF parent_remove = index_keep
        THEN SetField(s, index_remove, "parent_", index_remove) ELSE s
      \* Swap Children Index
      SwapChildren(s) ==
        _assign_parent(
          _assign_parent(
            _assign_parent(
              _assign_parent(s, Rd(st, index_keep).left_, index_remove),
              Rd(st, index_keep).right_, index_remove),
            Rd(st, index_remove).left_, index_keep),
          Rd(st, index_remove).right_, index_keep)
      \* Update Root if in swap
      UpdateRoot(s) ==
        [s EXCEPT !.root_ = SwapRoot(@, index_keep, index_remove)]
      \* Swap vector position
      SwapSlots(s) ==
        Wr(Wr(s, index_keep, Rd(s, index_remove)), index_remove,
           Rd(s, index_keep))
  IN SwapSlots(UpdateRoot(SwapChildren(RelatedRemove(RelatedKeep(
       SwapParentRemove(SwapParentKeep(
         Touch(Touch(SwapCaches(st), index_keep), index_remove))))))))

\* variant of _erase_hashmap that empties the slot it frees without adding it
\* to the collision linked list
_erase_hashmap_leaking(st, erase_index, prev_index) ==
  LET next == Rd(st, erase_index).next_
      Drop(s, idx) == SetField(SetEmpty(s, idx), idx, "next_", 0)
  IN IF erase_index < st.hashable_capacity_
     THEN IF next = 0
          THEN [st |-> SetEmpty(st, erase_index), erase_index |-> erase_index]
          ELSE [st |-> Drop(_swap_node_position(st, next, erase_index), next),
                erase_index |-> next]
     ELSE [st |-> Drop(SetField(st, prev_index, "next_", next), erase_index),
           erase_index |-> erase_index]

\* variant of _erase_hashmap that empties a home slot without promoting the
\* next element of its chain
_erase_hashmap_unpromoted(st, erase_index, prev_index) ==
  LET unlinked ==
        SetField(st, prev_index, "next_", Rd(st, erase_index).next_)
      freed == SetField(SetEmpty(unlinked, erase_index), erase_index,
                        "next_", 0)
  IN IF erase_index < st.hashable_capacity_
     THEN [st |-> SetEmpty(st, erase_index), erase_index |-> erase_index]
     ELSE [st |-> [SetField(freed, freed.collision_tail_, "next_",
                            erase_index)
                     EXCEPT !.collision_tail_ = erase_index],
           erase_index |-> erase_index]

\* yields the state and erase_index, which is passed by reference
_erase_hashmap(st, erase_index, prev_index) ==
  LET next == Rd(st, erase_index).next_
      \* Add to collision linked list
      AppendFree(s, idx) ==
        [SetField(s, s.collision_tail_, "next_", idx)
           EXCEPT !.collision_tail_ = idx]
      Release(s, idx) ==
        AppendFree(SetField(SetEmpty(s, idx), idx, "next_", 0), idx)
  IN IF erase_index < st.hashable_capacity_
     THEN IF next = 0
          THEN [st |-> SetEmpty(st, erase_index), erase_index |-> erase_index]
          ELSE [st |-> Release(_swap_node_position(st, next, erase_index),
                               next),
                erase_index |-> next]
     ELSE [st |-> Release(SetField(st, prev_index, "next_", next), erase_index),
           erase_index |-> erase_index]

\* the tree part of _erase, after the hash chain was unlinked
EraseFromTree(h) ==
  LET st == h.st
      erase_index == h.erase_index
      erase_node == Rd(st, erase_index)
      \* One or both children empty
      only_child == IF erase_node.left_ = empty_index_ THEN erase_node.right_
                    ELSE erase_node.left_
      unlinked ==
        _update_children(
          _assign_parent(Touch(st, erase_index), only_child,
                         erase_node.parent_),
          only_child, erase_node.parent_, erase_index)
      \* Both children full
      min_index == _min_value_index(st, erase_index).v
      child == Rd(st, min_index).right_
      parent0 == Rd(st, min_index).parent_
      Unlink(s) ==
        IF parent0 = erase_index THEN SetField(s, parent0, "right_", child)
        ELSE SetField(s, parent0, "left_", child)
      Replace(s) ==
        _update_children(s, min_index, Rd(s, erase_index).parent_,
                         erase_index)
      AdoptLeft(s) ==
        SetField(s, Rd(s, erase_index).left_, "parent_", min_index)
      AdoptRight(s) ==
        _assign_parent(s, Rd(s, erase_index).right_, min_index)
      moved ==
        AdoptRight(AdoptLeft(Replace(
          _transfer_node_data(
            Unlink(_assign_parent(
                     Touch(Flag(Touch(st, erase_index),
                                _min_value_index(st, erase_index)),
                           min_index),
                     child, parent0)),
            min_index, erase_index))))
  IN IF erase_node.left_ = empty_index_ \/ erase_node.right_ = empty_index_
     THEN IF _get_color(erase_node.fingerprint_full_clr_) = BLACK_
          THEN _fix_erase(unlinked, only_child, erase_node.parent_)
          ELSE unlinked
     ELSE IF _get_color(Rd(st, min_index).fingerprint_full_clr_) = BLACK_
          THEN _fix_erase(moved, child,
                          IF parent0 = erase_index THEN min_index
                          ELSE parent0)
          ELSE moved

\* yields the state, first (erased or not) and second (the index of the
\* element after the erased one)
_erase(st, key) ==
  LET find_location == _find(st, key)
      upper_index == _next(st, find_location.first).v
      lower_index == _prev(st, find_location.first).v
      Caches(s) ==
        [s EXCEPT !.last_index_cache_ =
                    IF upper_index = empty_index_ THEN lower_index ELSE @,
                  !.first_index_cache_ =
                    IF lower_index = empty_index_ THEN upper_index ELSE @]
      Erased(s) ==
        [st |-> [s EXCEPT !.size_ = (@ - 1) % (2^IndexBits)],
         first |-> TRUE, second |-> upper_index]
  IN IF find_location.hang
     THEN [st |-> [st EXCEPT !.hang = TRUE], first |-> FALSE,
           second |-> empty_index_]
     ELSE IF find_location.first = empty_index_
     THEN [st |-> st, first |-> FALSE, second |-> empty_index_]
     ELSE Erased(EraseFromTree(
            _erase_hashmap(
              Caches(Flag(Flag(st, _next(st, find_location.first)),
                          _prev(st, find_location.first))),
              find_location.first, find_location.second)))

\* ------------------------------------------------------------------ insert
_check_cached_extrema(st, key, insert_index) ==
  IF st.last_index_cache_ = empty_index_
  THEN [st |-> [st EXCEPT !.first_index_cache_ = insert_index,
                          !.last_index_cache_ = insert_index],
        parent |-> empty_index_]
  ELSE IF compare_(key, Rd(st, st.first_index_cache_).pair_)
  THEN [st |-> [Touch(st, st.first_index_cache_)
                  EXCEPT !.first_index_cache_ = insert_index],
        parent |-> st.first_index_cache_]
  ELSE IF compare_(Rd(st, st.last_index_cache_).pair_, key)
  THEN [st |-> [Touch(Touch(st, st.first_index_cache_), st.last_index_cache_)
                  EXCEPT !.last_index_cache_ = insert_index],
        parent |-> st.last_index_cache_]
  ELSE [st |-> Touch(Touch(st, st.first_index_cache_), st.last_index_cache_),
        parent |-> empty_index_]

_update_parent(st, key, parent, insert_index) ==
  IF compare_(key, Rd(st, parent).pair_)
  THEN SetField(Touch(st, parent), parent, "left_", insert_index)
  ELSE SetField(Touch(st, parent), parent, "right_", insert_index)

_validate_size(st) ==
  IF st.size_ = empty_index_ THEN [st EXCEPT !.exc = "runtime_error"] ELSE st

\* the capacity a rehash grows to
NextCapacity(st) ==
  IF empty_index_ < growth_multiple_ * st.capacity_ THEN empty_index_
  ELSE st.capacity_ * growth_multiple_

\* variant of the chain walk of _emplace_hashmap that compares the key with
\* the home bucket only
RECURSIVE ChainWalkHomeOnly(_, _, _, _)
ChainWalkHomeOnly(st, key, chain_node, fuel) ==
  LET bucket == Rd(st, chain_node)
  IN IF /\ chain_node = _index_from_hash(st, _hash(st, key))
        /\ _get_fingerprint(_hash(st, key))
             = _get_fingerprint(bucket.fingerprint_full_clr_)
        /\ equal_(bucket.pair_, key)
     THEN [found |-> TRUE, prev_index |-> chain_node, hang |-> FALSE]
     ELSE IF bucket.next_ = 0
     THEN [found |-> FALSE, prev_index |-> chain_node, hang |-> FALSE]
     ELSE IF fuel = 0
     THEN [found |-> FALSE, prev_index |-> chain_node, hang |-> TRUE]
     ELSE ChainWalkHomeOnly(st, key, bucket.next_, fuel - 1)

\* the do-while chain walk of _emplace_hashmap
RECURSIVE ChainWalk(_, _, _, _)
ChainWalk(st, key, chain_node, fuel) ==
  LET bucket == Rd(st, chain_node)
  IN IF /\ _get_fingerprint(_hash(st, key))
             = _get_fingerprint(bucket.fingerprint_full_clr_)
        /\ equal_(bucket.pair_, key)
     THEN [found |-> TRUE, prev_index |-> chain_node, hang |-> FALSE]
     ELSE IF bucket.next_ = 0
     THEN [found |-> FALSE, prev_index |-> chain_node, hang |-> FALSE]
     ELSE IF fuel = 0
     THEN [found |-> FALSE, prev_index |-> chain_node, hang |-> TRUE]
     ELSE ChainWalk(st, key, bucket.next_, fuel - 1)

RECURSIVE _emplace_hashmap(_, _)
RECURSIVE _emplace(_, _)
RECURSIVE RehashLoop(_, _, _, _)

\* self_type other(new_capacity); for (it = begin(); it != end(); ++it)
\* other.insert(*it); swap(other);
_rehash(st, new_capacity) ==
  LET other == [hash_flat_base(new_capacity, st.hash_, st.ghost)
                  EXCEPT !.oob = st.oob, !.hang = st.hang]
      Swap(loop) == IF loop.it = empty_index_ \/ loop.other.exc # "none"
                    THEN loop.other
                    ELSE [loop.other EXCEPT !.hang = TRUE]
  IN Swap(RehashLoop(st, other, _first(st), Fuel(st)))

\* the next fuel passes of the loop, from the cursor it: one pass inserts
\* *it into other and advances the cursor; a longer stretch is its first
\* half followed by its second half
RehashLoop(st, other, it, fuel) ==
  IF it = empty_index_ \/ other.exc # "none" \/ fuel = 0
  THEN [other |-> other, it |-> it]
  ELSE IF fuel = 1
  THEN LET Advance(o1, n) == [other |-> Flag(o1, n), it |-> n.v]
       IN Advance(_emplace(IF InStore(st, it) THEN other
                           ELSE [other EXCEPT !.oob = TRUE],
                           Rd(st, it).pair_).st,
                  _next(st, it))
  ELSE LET Rest(half) ==
             RehashLoop(st, half.other, half.it, fuel - fuel \div 2)
       IN Rest(RehashLoop(st, other, it, fuel \div 2))

\* yields the state and whether the load factor allows one more element;
\* otherwise the container was rehashed
_validate_load_factor_bounds(st) ==
  LET max_capacity == st.capacity_ * load_factor_
  IN IF st.size_ + 1 > max_capacity
     THEN [st |-> _rehash(st, NextCapacity(st)), ok |-> FALSE]
     ELSE [st |-> st, ok |-> TRUE]

_validate_collision_space_bounds(st) ==
  IF st.collision_head_ >= st.capacity_
  THEN [st |-> _rehash(st, NextCapacity(st)), ok |-> FALSE]
  ELSE [st |-> st, ok |-> TRUE]

\* variant of Claim that leaves next_ of the claimed slot as it was
Claim_keeps_next(st, insert_index, key) ==
  [st |-> SetField(st, insert_index, "fingerprint_full_clr_",
                   _set_fingerprint(_hash(st, key))),
   first |-> insert_index, second |-> TRUE]

\* Good to go on insert, not in the tree
Claim(st, insert_index, key) ==
  [st |-> SetField(SetField(st, insert_index, "fingerprint_full_clr_", _set_fingerprint(_hash(st, key))),
                  insert_index, "next_", 0),
   first |-> insert_index, second |-> TRUE]

\* stops the operation where it is: a thrown exception or a loop that
\* never ends
Stopped(st) == st.hang \/ st.exc # "none"

\* variant of _emplace_hashmap that claims the home bucket of a key that is
\* not in the container, full or not
_emplace_hashmap_over_home(st, key) ==
  LET insert_index == _index_from_hash(st, _hash(st, key))
      walk == ChainWalk(st, key, insert_index, Fuel(st))
      v == _validate_load_factor_bounds(st)
  IN IF _get_full(Rd(st, insert_index).fingerprint_full_clr_) /\ walk.found
     THEN [st |-> st, first |-> insert_index, second |-> FALSE]
     ELSE IF v.ok THEN Claim(st, insert_index, key)
     ELSE IF Stopped(v.st) \/ v.st = st
     THEN [st |-> [v.st EXCEPT !.hang = TRUE], first |-> empty_index_,
           second |-> FALSE]
     ELSE _emplace_hashmap(v.st, key)

_emplace_hashmap(st, key) ==
  LET insert_index == _index_from_hash(st, _hash(st, key))
      \* the container was rehashed: the insertion starts over; when the
      \* rehash has left the container as it was, it starts over for ever
      Again(s) ==
        IF Stopped(s)
        THEN [st |-> s, first |-> empty_index_, second |-> FALSE]
        ELSE IF s = st
        THEN [st |-> [s EXCEPT !.hang = TRUE], first |-> empty_index_,
              second |-> FALSE]
        ELSE _emplace_hashmap(s, key)
      \* Insert at the end of the collisions vector
      AtEnd(prev_index) ==
        Claim(SetField([st EXCEPT !.collision_head_ = @ + 1,
                                  !.collision_tail_ = @ + 1],
                       prev_index, "next_", st.collision_head_),
              st.collision_head_, key)
      \* Fill in the empty slots
      Reuse(free, prev_index) ==
        Claim(SetField(IF free = st.collision_tail_
                       THEN [st EXCEPT !.collision_tail_ = st.collision_head_]
                       ELSE SetField(st, st.collision_head_, "next_",
                                     Rd(st, free).next_),
                       prev_index, "next_", free),
              free, key)
      Grown(v, placed) == IF ~v.ok THEN Again(v.st) ELSE placed
      Chained(walk) ==
        IF st.collision_tail_ = st.collision_head_
        THEN Grown(_validate_collision_space_bounds(st),
                   AtEnd(walk.prev_index))
        ELSE Reuse(Rd(st, st.collision_head_).next_, walk.prev_index)
      Collision(walk) ==
        IF walk.hang
        THEN [st |-> [st EXCEPT !.hang = TRUE], first |-> empty_index_,
              second |-> FALSE]
        ELSE IF walk.found
        THEN [st |-> st, first |-> insert_index, second |-> FALSE]
        ELSE Grown(_validate_load_factor_bounds(st), Chained(walk))
  IN IF _get_full(Rd(st, insert_index).fingerprint_full_clr_)
     THEN Collision(ChainWalk(st, key, insert_index, Fuel(st)))
     ELSE Grown(_validate_load_factor_bounds(st),
                Claim(st, insert_index, key))

\* yields the state, first (the index the returned iterator holds) and
\* second (inserted or not)
_emplace(st, key) ==
  LET InTree(hashmap_location) ==
        LET insert_index == hashmap_location.first
            s0 == _validate_size(hashmap_location.st)
            ce == _check_cached_extrema(s0, key, insert_index)
            fp == _find_parent_location(ce.st, key)
            parent_index == IF ce.parent = empty_index_ THEN fp.v
                            ELSE ce.parent
            s1 == IF ce.parent = empty_index_ THEN Flag(ce.st, fp) ELSE ce.st
            \* Create Node
            Create(s) ==
              [Wr(s, insert_index,
                  [Rd(s, insert_index) EXCEPT !.pair_ = key,
                                              !.parent_ = parent_index,
                                              !.left_ = empty_index_,
                                              !.right_ = empty_index_])
                 EXCEPT !.size_ = (@ + 1) % (2^IndexBits)]
        IN IF Stopped(hashmap_location.st) \/ ~hashmap_location.second
           THEN hashmap_location
           ELSE IF s0.exc # "none"
           THEN [st |-> s0, first |-> empty_index_, second |-> FALSE]
           ELSE IF s1.hang
           THEN [st |-> s1, first |-> empty_index_, second |-> FALSE]
           ELSE \* Update root_
                [st |-> IF s1.root_ = empty_index_
                        THEN SetBlack([Create(s1) EXCEPT !.root_ = insert_index],
                                      insert_index)
                        ELSE _fix_insert(
                               _update_parent(Create(s1), key, parent_index,
                                              insert_index),
                               insert_index),
                 first |-> insert_index, second |-> TRUE]
  IN InTree(_emplace_hashmap(st, key))

\* ------------------------------------------------------------------------
\* dro::details::FlatRBTree (include/dro/flat-rb-tree.hpp), the standalone
\* tree the hybrid grew out of, instantiated as FlatSet<int>.  A container
\* value is a record of the class's fields plus the ghost fields oob, hang,
\* exc and ghost, as for the hybrid.
\* ------------------------------------------------------------------------
\* a value-initialised Node
Node ==
  [pair_ |-> 0, parent_ |-> empty_index_, left_ |-> empty_index_,
   right_ |-> empty_index_, color_ |-> RED_]

FlatRBTree(capacity, ghost) ==
  [tree_ |-> [i \in 0..(capacity - 1) |-> Node],
   capacity_ |-> capacity,
   size_ |-> 0,
   root_ |-> empty_index_,
   oob |-> FALSE, hang |-> FALSE, exc |-> "none", ghost |-> ghost]

\* std::swap(tree_[i].f, tree_[j].g)
SwapField(st, i, f, j, g) ==
  LET a == Rd(st, i)[f]
      b == Rd(st, j)[g]
  IN SetField(SetField(st, i, f, b), j, g, a)

\* std::swap(tree_[i], tree_[j])
SwapNodes(st, i, j) ==
  LET a == Rd(st, i)
      b == Rd(st, j)
  IN Wr(Wr(st, i, b), j, a)

\* variant of _validateSize that refuses every insert into a tree that is
\* full to its capacity
_validateSizeAtCapacity(st) ==
  IF st.size_ = st.capacity_ THEN [st EXCEPT !.exc = "runtime_error"] ELSE st

_validateSize(st) ==
  IF st.size_ = empty_index_ THEN [st EXCEPT !.exc = "runtime_error"] ELSE st

\* tree_.resize(n)
Resize(st, n) ==
  [st EXCEPT !.tree_ = [i \in 0..(n - 1) |->
                          IF i \in DOMAIN st.tree_ THEN st.tree_[i] ELSE Node]]

_resizeTree(st, new_cap) ==
  IF new_cap > st.capacity_ THEN Resize(st, new_cap)
  ELSE IF st.size_ = st.capacity_
  THEN LET doubled == (st.capacity_ * 2) % (2^IndexBits)
           c == IF empty_index_ < doubled THEN empty_index_ ELSE doubled
       IN Resize([st EXCEPT !.capacity_ = c], c)
  ELSE st

\* reserve(new_cap)
reserve(st, new_cap) == _resizeTree(st, new_cap)

\* shrink_to_fit(): one pop_back for each unit of capacity_ above size_; a
\* pop_back of an empty vector is undefined
shrink_to_fit(st) ==
  LET popped == st.capacity_ - st.size_
      len == Cardinality(DOMAIN st.tree_)
  IN IF st.capacity_ <= st.size_ THEN st
     ELSE IF popped > len
     THEN [Resize(st, 0) EXCEPT !.capacity_ = st.size_, !.oob = TRUE]
     ELSE [Resize(st, len - popped) EXCEPT !.capacity_ = st.size_]

\* yields [first, second, hang, oob]
RECURSIVE FindInsertLoop(_, _, _, _, _, _)
FindInsertLoop(st, key, node, parent, oob, fuel) ==
  IF node = empty_index_
  THEN [first |-> parent, second |-> TRUE, hang |-> FALSE, oob |-> oob]
  ELSE IF fuel = 0
  THEN [first |-> parent, second |-> TRUE, hang |-> TRUE, oob |-> oob]
  ELSE LET parentRef == Rd(st, node)
           o == oob \/ ~InStore(st, node)
       IN IF key = parentRef.pair_
          THEN [first |-> node, second |-> FALSE, hang |-> FALSE, oob |-> o]
          ELSE FindInsertLoop(st, key,
                              IF compare_(key, parentRef.pair_)
                              THEN parentRef.left_ ELSE parentRef.right_,
                              node, o, fuel - 1)

_findInsertLocation(st, key) ==
  FindInsertLoop(st, key, st.root_, empty_index_, FALSE, Fuel(st))

_insertUpdateParentRoot(st, key, parent, insertIndex) ==
  IF compare_(key, Rd(st, parent).pair_)
  THEN SetField(Touch(st, parent), parent, "left_", insertIndex)
  ELSE SetField(Touch(st, parent), parent, "right_", insertIndex)

RECURSIVE FindIndexLoop(_, _, _, _, _)
FindIndexLoop(st, key, node, oob, fuel) ==
  IF node = empty_index_ THEN Res(empty_index_, FALSE, oob)
  ELSE IF fuel = 0 THEN Res(empty_index_, TRUE, oob)
  ELSE LET nodeRef == Rd(st, node)
           o == oob \/ ~InStore(st, node)
       IN IF nodeRef.pair_ = key THEN Res(node, FALSE, o)
          ELSE FindIndexLoop(st, key,
                             IF compare_(nodeRef.pair_, key)
                             THEN nodeRef.right_ ELSE nodeRef.left_,
                             o, fuel - 1)

_find_index(st, key) == FindIndexLoop(st, key, st.root_, FALSE, Fuel(st))

_updateParent(st, node, newParent) ==
  IF node # empty_index_ THEN SetField(st, node, "parent_", newParent) ELSE st

_transferData(st, nodeLeft, nodeRight) ==
  LET CopyParent(s) ==
        SetField(s, nodeLeft, "parent_", Rd(s, nodeRight).parent_)
      CopyColor(s) == SetField(s, nodeLeft, "color_", Rd(s, nodeRight).color_)
      CopyLeft(s) == SetField(s, nodeLeft, "left_", Rd(s, nodeRight).left_)
      CopyRight(s) == SetField(s, nodeLeft, "right_", Rd(s, nodeRight).right_)
  IN CopyRight(CopyLeft(CopyColor(CopyParent(
       Touch(Touch(st, nodeLeft), nodeRight)))))

_updateParentChild(st, child, parent, eraseIndex) ==
  IF parent = empty_index_ THEN [st EXCEPT !.root_ = child]
  ELSE IF Rd(st, parent).left_ = eraseIndex
  THEN SetField(Touch(st, parent), parent, "left_", child)
  ELSE SetField(Touch(st, parent), parent, "right_", child)

\* variant of _rotateLeft that exchanges the links and leaves each payload in
\* its slot
_rotateLeft_keeps_payload(st, node) ==
  LET child == Rd(st, node).right_
      UpdateChildren(s) ==
        IF Rd(s, child).right_ # empty_index_
        THEN SetField(s, Rd(s, child).right_, "parent_", node) ELSE s
      UpdateParent(s) ==
        IF Rd(s, node).left_ # empty_index_
        THEN SetField(s, Rd(s, node).left_, "parent_", child) ELSE s
      SwapLinks(s) ==
        SwapField(SwapField(SwapField(s, node, "left_", child, "right_"),
                            node, "left_", node, "right_"),
                  child, "left_", child, "right_")
  IN [st |-> SwapLinks(UpdateParent(UpdateChildren(
               Touch(Touch(st, node), child)))),
      v |-> child]

\* the payloads of node and its right child change places; yields the state
\* and child
_rotateLeft(st, node) ==
  LET child == Rd(st, node).right_
      \* Update Children
      UpdateChildren(s) ==
        IF Rd(s, child).right_ # empty_index_
        THEN SetField(s, Rd(s, child).right_, "parent_", node) ELSE s
      \* Update Parent
      UpdateParent(s) ==
        IF Rd(s, node).left_ # empty_index_
        THEN SetField(s, Rd(s, node).left_, "parent_", child) ELSE s
      SwapPayload(s) ==
        SwapField(SwapField(s, node, "pair_", child, "pair_"),
                  node, "color_", child, "color_")
      SwapLinks(s) ==
        SwapField(SwapField(SwapField(s, node, "left_", child, "right_"),
                            node, "left_", node, "right_"),
                  child, "left_", child, "right_")
  IN [st |-> SwapLinks(SwapPayload(UpdateParent(UpdateChildren(
               Touch(Touch(st, node), child))))),
      v |-> child]

_rotateRight(st, node) ==
  LET child == Rd(st, node).left_
      \* Update Children
      UpdateChildren(s) ==
        IF Rd(s, child).left_ # empty_index_
        THEN SetField(s, Rd(s, child).left_, "parent_", node) ELSE s
      \* Update Parent
      UpdateParent(s) ==
        IF Rd(s, node).right_ # empty_index_
        THEN SetField(s, Rd(s, node).right_, "parent_", child) ELSE s
      SwapPayload(s) ==
        SwapField(SwapField(s, node, "pair_", child, "pair_"),
                  node, "color_", child, "color_")
      SwapLinks(s) ==
        SwapField(SwapField(SwapField(s, node, "right_", child, "left_"),
                            node, "left_", node, "right_"),
                  child, "left_", child, "right_")
  IN [st |-> SwapLinks(SwapPayload(UpdateParent(UpdateChildren(
               Touch(Touch(st, node), child))))),
      v |-> child]

\* the parent's link to index is made to lead to other
Relink(st, parent, index, other) ==
  IF parent = empty_index_ THEN st
  ELSE IF Rd(st, parent).left_ = index
  THEN SetField(Touch(st, parent), parent, "left_", other)
  ELSE SetField(Touch(st, parent), parent, "right_", other)

_swapNodePosition(st, nodeA, nodeB) ==
  LET nodeAParent == Rd(st, nodeA).parent_
      nodeBParent == Rd(st, nodeB).parent_
      \* Swap Parent Index
      SwapParents(s) ==
        Relink(Relink(s, nodeAParent, nodeA, nodeB), nodeBParent, nodeB, nodeA)
      \* Check if nodes have relationhip
      RelatedA(s) ==
        IF nodeAParent = nodeB THEN SetField(s, nodeA, "parent_", nodeA) ELSE s
      RelatedB(s) ==
        IF nodeBParent = nodeA THEN SetField(s, nodeB, "parent_", nodeB) ELSE s
      \* Swap Children Index
      SwapChildren(s) ==
        _updateParent(
          _updateParent(
            _updateParent(_updateParent(s, Rd(st, nodeA).left_, nodeB),
                          Rd(st, nodeA).right_, nodeB),
            Rd(st, nodeB).left_, nodeA),
          Rd(st, nodeB).right_, nodeA)
      \* Update Root if in swap
      UpdateRoot(s) ==
        [s EXCEPT !.root_ = IF @ = nodeA THEN nodeB
                            ELSE IF @ = nodeB THEN nodeA ELSE @]
  IN IF nodeA = nodeB THEN st
     ELSE SwapNodes(
            UpdateRoot(SwapChildren(RelatedB(RelatedA(SwapParents(
              Touch(Touch(st, nodeA), nodeB)))))),
            nodeA, nodeB)

\* yields the state, child and parent (both passed by reference)
_swapNodePositionRemove(r, nodeA, nodeB) ==
  LET nodeAParent == Rd(r.st, nodeA).parent_
      nodeALeft == Rd(r.st, nodeA).left_
      nodeARight == Rd(r.st, nodeA).right_
      \* Update Root if in swap
      UpdateRoot(s) == [s EXCEPT !.root_ = IF @ = nodeA THEN nodeB ELSE @]
  IN IF nodeA = nodeB THEN r
     ELSE [st |-> SwapNodes(
                    UpdateRoot(
                      _updateParent(
                        _updateParent(
                          Relink(Touch(r.st, nodeA), nodeAParent, nodeA,
                                 nodeB),
                          nodeALeft, nodeB),
                        nodeARight, nodeB)),
                    nodeA, nodeB),
           child |-> IF nodeA = r.child THEN nodeB ELSE r.child,
           parent |-> IF nodeA = r.parent THEN nodeB ELSE r.parent]

\* variant of _swapOutOfTree that leaves the last element where it is
_swapOutOfTreeInPlace(st, node, removeNode, child, parent) ==
  IF node # empty_index_
  THEN _swapNodePositionRemove(
         [st |-> st, child |-> child, parent |-> parent], node, removeNode)
  ELSE [st |-> st, child |-> child, parent |-> parent]

_swapOutOfTree(st, node, removeNode, child, parent) ==
  _swapNodePositionRemove(
    IF node # empty_index_
    THEN _swapNodePositionRemove(
           [st |-> st, child |-> child, parent |-> parent], node, removeNode)
    ELSE [st |-> st, child |-> child, parent |-> parent],
    (st.size_ - 1) % (2^IndexBits),
    IF node # empty_index_ THEN node ELSE removeNode)

_minValueNode(st, node) ==
  DescendLeft(st, Rd(st, node).right_, ~InStore(st, node), Fuel(st))

_updateInsertColors(st, uncle, parent, grandparent) ==
  SetField(SetField(SetField(st, grandparent, "color_", RED_),
                    parent, "color_", BLACK_),
           uncle, "color_", BLACK_)

\* the else branch of the loop of _fixInsert: the swap with the uncle, the
\* rotations and the colour swap
FixInsertRestructure(st, node, parent, grandparent) ==
  SwapField(
    IF parent = Rd(st, grandparent).left_
    THEN \* Left Tree Insert
         _rotateRight(IF node = Rd(st, parent).right_
                      THEN _rotateLeft(st, parent).st ELSE st,
                      grandparent).st
    ELSE \* Right Tree Insert
         _rotateLeft(IF node = Rd(st, parent).left_
                     THEN _rotateRight(st, parent).st ELSE st,
                     grandparent).st,
    parent, "color_", grandparent, "color_")

RECURSIVE FixInsertWhile(_, _, _)
FixInsertWhile(st, node, fuel) ==
  IF node = st.root_ THEN st
  ELSE
    LET parent == Rd(st, node).parent_
        grandparent == Rd(st, parent).parent_
        uncle == IF parent = Rd(st, grandparent).left_
                 THEN Rd(st, grandparent).right_
                 ELSE Rd(st, grandparent).left_
        Touched(s) ==
          IF uncle # empty_index_
          THEN Touch(Touch(Touch(Touch(s, node), parent), grandparent), uncle)
          ELSE Touch(Touch(Touch(s, node), parent), grandparent)
    IN IF Rd(st, parent).color_ # RED_ THEN Touch(Touch(st, node), parent)
       ELSE IF fuel = 0
       THEN [Touch(Touch(st, node), parent) EXCEPT !.hang = TRUE]
       ELSE IF uncle # empty_index_ /\ Rd(st, uncle).color_ = RED_
       THEN FixInsertWhile(
              _updateInsertColors(Touched(st), uncle, parent, grandparent),
              grandparent, fuel - 1)
       ELSE IF uncle # empty_index_
       THEN FixInsertWhile(
              FixInsertRestructure(_swapNodePosition(Touched(st), uncle, node),
                                   uncle, parent, grandparent),
              parent, fuel - 1)
       ELSE FixInsertWhile(
              FixInsertRestructure(Touched(st), node, parent, grandparent),
              parent, fuel - 1)

_fixInsert(st, node) ==
  LET BlackRoot(s) ==
        IF s.hang THEN s ELSE SetField(s, s.root_, "color_", BLACK_)
  IN BlackRoot(FixInsertWhile(st, node, Fuel(st)))

\* _rotateLeft when far is right_, _rotateRight when far is left_
RotateToward(st, node, far) ==
  IF far = "right_" THEN _rotateLeft(st, node) ELSE _rotateRight(st, node)
RotateAway(st, node, far) ==
  IF far = "right_" THEN _rotateRight(st, node) ELSE _rotateLeft(st, node)

\* tree_[i].f is empty or leads to a black node
BlackOrEmpty(st, i, f) ==
  Rd(st, i)[f] = empty_index_ \/ Rd(st, Rd(st, i)[f]).color_ = BLACK_
TouchChild(st, i, f) ==
  IF Rd(st, i)[f] = empty_index_ THEN st ELSE Touch(st, Rd(st, i)[f])

\* One pass of the loop of _fixErase on the side where the sibling is
\* parent's far child (far is right_ in "Left Tree Erase", left_ in "Right
\* Tree Erase").  Yields the state, node, parent and whether the loop broke.
FixEraseSide(st, node, parent, far, near) ==
  LET sibling0 == Rd(st, parent)[far]
      red == Rd(st, sibling0).color_ = RED_
      \* the sibling is black, its far child is red: recolour and rotate
      FarRed(s3, parent1, sibling1) ==
        LET FarBlack(s5) ==
              IF Rd(s5, sibling1)[far] # empty_index_
              THEN SetField(s5, Rd(s5, sibling1)[far], "color_", BLACK_)
              ELSE s5
            Broke(s7) ==
              [st |-> s7, node |-> s7.root_, parent |-> parent1,
               done |-> TRUE]
        IN Broke(RotateToward(
                   FarBlack(SetField(SetField(Touch(s3, parent1), sibling1,
                                              "color_",
                                              Rd(s3, parent1).color_),
                                     parent1, "color_", BLACK_)),
                   parent1, far).st)
      \* the sibling is black, its near child is red: rotate the sibling
      NearRed(s2, parent1, sibling) ==
        LET nearChild == Rd(s2, sibling)[near]
            Rotated(s3) == FarRed(s3, parent1, Rd(s3, parent1)[far])
        IN Rotated(RotateAway(
                     SetField(IF nearChild # empty_index_
                              THEN SetField(s2, nearChild, "color_", BLACK_)
                              ELSE s2,
                              sibling, "color_", RED_),
                     sibling, far).st)
      BlackSibling(s1, parent1, sibling) ==
        LET leftBlack == BlackOrEmpty(s1, sibling, "left_")
            rightBlack == BlackOrEmpty(s1, sibling, "right_")
            s2 == IF leftBlack
                  THEN TouchChild(TouchChild(s1, sibling, "left_"),
                                  sibling, "right_")
                  ELSE TouchChild(s1, sibling, "left_")
            MoveUp(s3) ==
              [st |-> Touch(s3, parent1), node |-> parent1,
               parent |-> Rd(s3, parent1).parent_, done |-> FALSE]
        IN IF leftBlack /\ rightBlack
           THEN MoveUp(SetField(s2, sibling, "color_", RED_))
           ELSE IF BlackOrEmpty(s1, sibling, far)
           THEN NearRed(s2, parent1, sibling)
           ELSE FarRed(s2, parent1, sibling)
      RedSibling(rot) ==
        BlackSibling(Touch(Touch(rot.st, rot.v), Rd(rot.st, rot.v)[far]),
                     rot.v, Rd(rot.st, rot.v)[far])
  IN IF red
     THEN RedSibling(RotateToward(
                       SetField(SetField(Touch(st, sibling0), sibling0,
                                         "color_", BLACK_),
                                parent, "color_", RED_),
                       parent, far))
     ELSE BlackSibling(Touch(st, sibling0), parent, sibling0)

\* yields the state and node as the loop leaves them
RECURSIVE FixEraseWhile(_, _, _, _)
FixEraseWhile(st, node, parent, fuel) ==
  IF node = st.root_ THEN [st |-> st, node |-> node]
  ELSE IF node # empty_index_ /\ Rd(st, node).color_ # BLACK_
  THEN [st |-> Touch(st, node), node |-> node]
  ELSE IF fuel = 0 THEN [st |-> [st EXCEPT !.hang = TRUE], node |-> node]
  ELSE
    LET left == node = Rd(st, parent).left_
        Looped(r) ==
          IF r.done THEN [st |-> r.st, node |-> r.node]
          ELSE FixEraseWhile(r.st, r.node, r.parent, fuel - 1)
    IN Looped(FixEraseSide(
                Touch(IF node # empty_index_ THEN Touch(st, node) ELSE st,
                      parent),
                node, parent,
                IF left THEN "right_" ELSE "left_",
                IF left THEN "left_" ELSE "right_"))

_fixErase(st, node, parent) ==
  LET BlackNode(r) ==
        IF r.st.hang \/ r.node = empty_index_ THEN r.st
        ELSE SetField(r.st, r.node, "color_", BLACK_)
  IN BlackNode(FixEraseWhile(st, node, parent, Fuel(st)))

\* _emplace, the overload for FlatSet; yields the state, the index of the
\* returned iterator and the returned flag
Flat_emplace(st, key) ==
  LET s0 == _validateSize(st)
      insertIndex == s0.size_
      insertResult == _findInsertLocation(s0, key)
      parent == insertResult.first
      \* Create Node in the end of the tree
      Create(s) ==
        [Wr(s, s.size_,
            [pair_ |-> key, parent_ |-> parent, left_ |-> empty_index_,
             right_ |-> empty_index_, color_ |-> RED_])
           EXCEPT !.size_ = (@ + 1) % (2^IndexBits)]
      Located(s, found) ==
        [st |-> Flag(s, found), first |-> found.v, second |-> TRUE]
      Inserted(s) == Located(s, _find_index(s, key))
  IN IF s0.exc # "none" \/ insertResult.hang
     THEN [st |-> Flag(s0, insertResult), first |-> empty_index_,
           second |-> FALSE]
     ELSE IF ~insertResult.second
     THEN [st |-> Flag(s0, insertResult), first |-> insertResult.first,
           second |-> FALSE]
     ELSE IF insertIndex = 0
     THEN \* Update root_
          [st |-> SetField([Create(_resizeTree(Flag(s0, insertResult), 0))
                              EXCEPT !.root_ = insertIndex],
                           insertIndex, "color_", BLACK_),
           first |-> insertIndex, second |-> TRUE]
     ELSE Inserted(_fixInsert(
                     _insertUpdateParentRoot(
                       Create(_resizeTree(Flag(s0, insertResult), 0)),
                       key, parent, insertIndex),
                     insertIndex))

\* the branch of _erase for a node with at most one child; yields the
\* state, child and parent
EraseOneChild(st, eraseIndex) ==
  LET eraseRef == Rd(st, eraseIndex)
      child == IF eraseRef.left_ = empty_index_ THEN eraseRef.right_
               ELSE eraseRef.left_
  IN _swapOutOfTree(
       _updateParentChild(_updateParent(st, child, eraseRef.parent_),
                          child, eraseRef.parent_, eraseIndex),
       child, eraseIndex, child, eraseRef.parent_)

\* the branch of _erase for a node with two children; yields the state,
\* child, parent, the colour taken from the successor and the flags of the
\* walk to it
EraseTwoChildren(st, eraseIndex) ==
  LET min == _minValueNode(st, eraseIndex)
      minNode == min.v
      child == Rd(st, minNode).right_
      parent == Rd(st, minNode).parent_
      Unlink(s) ==
        IF parent = eraseIndex THEN SetField(s, parent, "right_", child)
        ELSE SetField(s, parent, "left_", child)
      Replace(s) ==
        _updateParentChild(s, minNode, Rd(s, eraseIndex).parent_, eraseIndex)
      AdoptLeft(s) ==
        SetField(s, Rd(s, eraseIndex).left_, "parent_", minNode)
      AdoptRight(s) == _updateParent(s, Rd(s, eraseIndex).right_, minNode)
  IN [color |-> Rd(st, minNode).color_]
       @@ _swapOutOfTree(
            AdoptRight(AdoptLeft(Replace(
              _transferData(
                Unlink(_updateParent(Touch(Flag(st, min), minNode), child,
                                     parent)),
                minNode, eraseIndex)))),
            minNode, eraseIndex, child,
            IF parent = eraseIndex THEN minNode ELSE parent)

\* _erase; yields the state and the returned flag in first (second is
\* unused)
Flat_erase(st, key) ==
  LET found == _find_index(st, key)
      eraseIndex == found.v
      eraseRef == Rd(st, eraseIndex)
      Rebalance(r) ==
        IF r.st.hang THEN r.st
        ELSE IF r.color = BLACK_ THEN _fixErase(r.st, r.child, r.parent)
        ELSE r.st
      Erased(s) ==
        [st |-> [s EXCEPT !.size_ = (@ - 1) % (2^IndexBits)],
         first |-> TRUE, second |-> FALSE]
  IN IF found.hang \/ eraseIndex = empty_index_
     THEN [st |-> Flag(st, found), first |-> FALSE, second |-> FALSE]
     ELSE IF eraseRef.left_ = empty_index_ \/ eraseRef.right_ = empty_index_
     THEN Erased(Rebalance([color |-> eraseRef.color_]
                             @@ EraseOneChild(Flag(st, found), eraseIndex)))
     ELSE Erased(Rebalance(EraseTwoChildren(Flag(st, found), eraseIndex)))

\* the loop of _greaterThan
RECURSIVE GreaterThanLoop(_, _, _, _, _, _)
GreaterThanLoop(st, key, node, lastNode, oob, fuel) ==
  IF node = empty_index_ THEN Res(empty_index_, FALSE, oob)
  ELSE IF fuel = 0 THEN Res(empty_index_, TRUE, oob)
  ELSE
    LET nodeRef == Rd(st, node)
        o == oob \/ ~InStore(st, node)
        left == nodeRef.left_
        o1 == o \/ (lastNode # empty_index_ /\ ~InStore(st, left))
        o2 == o1 \/ ~InStore(st, lastNode)
    IN IF compare_(nodeRef.pair_, key) \/ nodeRef.pair_ = key
       THEN GreaterThanLoop(st, key, nodeRef.right_, nodeRef.right_, o,
                            fuel - 1)
       ELSE IF left = empty_index_ THEN Res(lastNode, FALSE, o)
       ELSE IF lastNode = empty_index_
       THEN GreaterThanLoop(st, key, left, left, o, fuel - 1)
       ELSE IF ~(compare_(Rd(st, left).pair_, key)
                 \/ Rd(st, left).pair_ = key)
       THEN GreaterThanLoop(st, key, left, left, o1, fuel - 1)
       ELSE IF ~compare_(Rd(st, lastNode).pair_, key)
       THEN Res(lastNode, FALSE, o2)
       ELSE GreaterThanLoop(st, key, left, left, o2, fuel - 1)

_greaterThan(st, key) ==
  GreaterThanLoop(st, key, st.root_, empty_index_, FALSE, Fuel(st))

\* the loop of _notLessThan
RECURSIVE NotLessThanLoop(_, _, _, _, _, _)
NotLessThanLoop(st, key, node, lastNode, oob, fuel) ==
  IF node = empty_index_ THEN Res(empty_index_, FALSE, oob)
  ELSE IF fuel = 0 THEN Res(empty_index_, TRUE, oob)
  ELSE
    LET nodeRef == Rd(st, node)
        o == oob \/ ~InStore(st, node)
        left == nodeRef.left_
        o1 == o \/ (lastNode # empty_index_ /\ ~InStore(st, left))
        o2 == o1 \/ ~InStore(st, lastNode)
    IN IF nodeRef.pair_ = key THEN Res(node, FALSE, o)
       ELSE IF compare_(nodeRef.pair_, key)
       THEN NotLessThanLoop(st, key, nodeRef.right_, nodeRef.right_, o,
                            fuel - 1)
       ELSE IF left = empty_index_ THEN Res(lastNode, FALSE, o)
       ELSE IF lastNode = empty_index_
       THEN NotLessThanLoop(st, key, left, left, o, fuel - 1)
       ELSE IF ~compare_(Rd(st, left).pair_, key)
       THEN NotLessThanLoop(st, key, left, left, o1, fuel - 1)
       ELSE IF ~compare_(Rd(st, lastNode).pair_, key)
               \/ Rd(st, lastNode).pair_ = key
       THEN Res(lastNode, FALSE, o2)
       ELSE NotLessThanLoop(st, key, left, left, o2, fuel - 1)

_notLessThan(st, key) ==
  NotLessThanLoop(st, key, st.root_, empty_index_, FALSE, Fuel(st))

\* erase(iterator pos): _erase(key) of the key at pos, then upper_bound(key);
\* second is the index of the iterator returned
Flat_erase_iterator(st, pos) ==
  LET key == Rd(st, pos).pair_
      UpperBound(r) ==
        IF r.st.hang THEN r
        ELSE [st |-> Flag(r.st, _greaterThan(r.st, key)), first |-> r.first,
              second |-> _greaterThan(r.st, key).v]
  IN UpperBound(Flat_erase(Touch(st, pos), key))

Flat_find(st, key) == _find_index(st, key)
\* FlatMap: at(key)
Flat_at(st, key) ==
  IF _find_index(st, key).v = empty_index_
  THEN [v |-> empty_index_, exc |-> "out_of_range",
        hang |-> _find_index(st, key).hang]
  ELSE [v |-> Mapped(Rd(st, _find_index(st, key).v).pair_), exc |-> "none",
        hang |-> _find_index(st, key).hang]

Flat_clear(st) == [st EXCEPT !.root_ = empty_index_, !.size_ = 0]

Flat_contains(st, key) == _find_index(st, key).v # empty_index_
Flat_count(st, key) == IF Flat_contains(st, key) THEN 1 ELSE 0

Flat_first(st) ==
  IF st.root_ # empty_index_ THEN DescendLeft(st, st.root_, FALSE, Fuel(st))
  ELSE Res(st.root_, FALSE, FALSE)

Flat_last(st) ==
  IF st.root_ # empty_index_ THEN DescendRight(st, st.root_, FALSE, Fuel(st))
  ELSE Res(st.root_, FALSE, FALSE)

\* while ((parent = tree_[node].parent_) && parent != empty_index_ &&
\*        node == tree_[parent].f) node = parent;
RECURSIVE Backtrack(_, _, _, _, _)
Backtrack(st, node, f, oob, fuel) ==
  LET parent == Rd(st, node).parent_
      o == oob \/ ~InStore(st, node)
  IN IF parent = 0 \/ parent = empty_index_ THEN Res(parent, FALSE, o)
     ELSE IF node # Rd(st, parent)[f]
     THEN Res(parent, FALSE, o \/ ~InStore(st, parent))
     ELSE IF fuel = 0 THEN Res(empty_index_, TRUE, o)
     ELSE Backtrack(st, parent, f, o \/ ~InStore(st, parent), fuel - 1)

Flat_next(st, node) ==
  IF node = (st.size_ - 1) % (2^IndexBits) \/ node = empty_index_
  THEN Res(empty_index_, FALSE, FALSE)
  ELSE IF Rd(st, node).right_ # empty_index_
  THEN DescendLeft(st, Rd(st, node).right_, ~InStore(st, node), Fuel(st))
  ELSE Backtrack(st, node, "right_", FALSE, Fuel(st))

Flat_prev(st, node) ==
  IF node = (st.size_ - 1) % (2^IndexBits) \/ node = empty_index_
  THEN Res(empty_index_, FALSE, FALSE)
  ELSE IF Rd(st, node).left_ # empty_index_
  THEN DescendRight(st, Rd(st, node).left_, ~InStore(st, node), Fuel(st))
  ELSE Backtrack(st, node, "left_", FALSE, Fuel(st))

\* ------------------------------------------------------------------------
\* The reference tree of the validation tests: std::_Rb_tree<T, T, ...>
\* (gccRBTree).  Its nodes never move, so a node is named by its key; NoNode
\* is the null pointer, and the header's parent link is the field root.
\* ------------------------------------------------------------------------
NoNode == MaxKey + 1

gccnode ==
  [parent |-> NoNode, left |-> NoNode, right |-> NoNode, color |-> RED_]

\* a default-constructed std::_Rb_tree
_Rb_tree == [root |-> NoNode, node |-> [k \in Keys |-> gccnode]]

\* x->f = v, for a non-null x
RSet(t, x, f, v) == IF x = NoNode THEN t ELSE [t EXCEPT !.node[x][f] = v]

RIsBlack(t, x) == x = NoNode \/ t.node[x].color = BLACK_

\* the pointer that leads to x (the root link or a child link of x's parent)
\* is made to lead to y
RReplace(t0, t, x, y) ==
  LET xp == t0.node[x].parent
  IN IF x = t0.root THEN [t EXCEPT !.root = y]
     ELSE IF x = t0.node[xp].left THEN RSet(t, xp, "left", y)
     ELSE RSet(t, xp, "right", y)

_Rb_tree_rotate_left(t, x) ==
  LET y == t.node[x].right
      t1 == RSet(t, x, "right", t.node[y].left)
      t2 == RSet(t1, t.node[y].left, "parent", x)
      t3 == RSet(t2, y, "parent", t.node[x].parent)
      t4 == RReplace(t, t3, x, y)
      t5 == RSet(t4, y, "left", x)
  IN RSet(t5, x, "parent", y)

_Rb_tree_rotate_right(t, x) ==
  LET y == t.node[x].left
      t1 == RSet(t, x, "left", t.node[y].right)
      t2 == RSet(t1, t.node[y].right, "parent", x)
      t3 == RSet(t2, y, "parent", t.node[x].parent)
      t4 == RReplace(t, t3, x, y)
      t5 == RSet(t4, y, "right", x)
  IN RSet(t5, x, "parent", y)

RECURSIVE InsertRebalance(_, _)
InsertRebalance(t, x) ==
  IF x = t.root \/ t.node[t.node[x].parent].color # RED_
  THEN RSet(t, t.root, "color", BLACK_)
  ELSE
    LET xp == t.node[x].parent
        xpp == t.node[xp].parent
        onLeft == xp = t.node[xpp].left
        y == IF onLeft THEN t.node[xpp].right ELSE t.node[xpp].left
        inner == IF onLeft THEN x = t.node[xp].right ELSE x = t.node[xp].left
        x1 == IF inner THEN xp ELSE x
        Recolour(t1) ==
          RSet(RSet(t1, t1.node[x1].parent, "color", BLACK_),
               xpp, "color", RED_)
    IN IF y # NoNode /\ t.node[y].color = RED_
       THEN InsertRebalance(
              RSet(RSet(RSet(t, xp, "color", BLACK_), y, "color", BLACK_),
                   xpp, "color", RED_), xpp)
       ELSE IF onLeft
       THEN InsertRebalance(
              _Rb_tree_rotate_right(
                Recolour(IF inner THEN _Rb_tree_rotate_left(t, xp) ELSE t),
                xpp),
              x1)
       ELSE InsertRebalance(
              _Rb_tree_rotate_left(
                Recolour(IF inner THEN _Rb_tree_rotate_right(t, xp) ELSE t),
                xpp),
              x1)

\* link x below p (p = NoNode: the header) and rebalance
_Rb_tree_insert_and_rebalance(t, insert_left, x, p) ==
  LET Link(t1) ==
        IF p = NoNode THEN [t1 EXCEPT !.root = x]
        ELSE IF insert_left THEN RSet(t1, p, "left", x)
        ELSE RSet(t1, p, "right", x)
  IN InsertRebalance(Link([t EXCEPT !.node[x] = [gccnode EXCEPT !.parent = p]]),
                     x)

\* the descent of _M_get_insert_unique_pos: the last node visited, or the
\* node holding key
RECURSIVE RDescend(_, _, _, _)
RDescend(t, x, y, key) ==
  IF x = NoNode THEN y
  ELSE IF x = key THEN x
  ELSE RDescend(t, IF key < x THEN t.node[x].left ELSE t.node[x].right, x,
                key)

RFind(t, key) ==
  LET y == RDescend(t, t.root, NoNode, key)
  IN IF y = key /\ t.root # NoNode THEN key ELSE NoNode

_M_emplace_unique(t, key) ==
  LET p == RDescend(t, t.root, NoNode, key)
  IN IF RFind(t, key) # NoNode THEN t
     ELSE _Rb_tree_insert_and_rebalance(t, p = NoNode \/ key < p, key, p)

RECURSIVE RLeftmost(_, _)
RLeftmost(t, y) ==
  IF t.node[y].left = NoNode THEN y ELSE RLeftmost(t, t.node[y].left)

RECURSIVE EraseRebalance(_, _, _)
EraseRebalance(t, x, x_parent) ==
  IF x = t.root \/ ~RIsBlack(t, x)
  THEN RSet(t, x, "color", BLACK_)
  ELSE
    LET onLeft == x = t.node[x_parent].left
        Near(s, w) == IF onLeft THEN s.node[w].left ELSE s.node[w].right
        Far(s, w) == IF onLeft THEN s.node[w].right ELSE s.node[w].left
        Sib(s) == IF onLeft THEN s.node[x_parent].right
                  ELSE s.node[x_parent].left
        Toward(s, n) == IF onLeft THEN _Rb_tree_rotate_left(s, n)
                        ELSE _Rb_tree_rotate_right(s, n)
        Away(s, n) == IF onLeft THEN _Rb_tree_rotate_right(s, n)
                      ELSE _Rb_tree_rotate_left(s, n)
        FarBlack(t4, w2) == RSet(t4, Far(t4, w2), "color", BLACK_)
        FarRed(t2, w2) ==
          RSet(Toward(FarBlack(RSet(RSet(t2, w2, "color",
                                         t2.node[x_parent].color),
                                    x_parent, "color", BLACK_),
                               w2),
                      x_parent),
               x, "color", BLACK_)
        NearRed(t2) == FarRed(t2, Sib(t2))
        BlackSibling(t1, w1) ==
          IF RIsBlack(t1, Near(t1, w1)) /\ RIsBlack(t1, Far(t1, w1))
          THEN EraseRebalance(RSet(t1, w1, "color", RED_), x_parent,
                              t1.node[x_parent].parent)
          ELSE IF RIsBlack(t1, Far(t1, w1))
          THEN NearRed(Away(RSet(RSet(t1, Near(t1, w1), "color", BLACK_),
                                 w1, "color", RED_), w1))
          ELSE FarRed(t1, w1)
        RedSibling(t1) == BlackSibling(t1, Sib(t1))
    IN IF t.node[Sib(t)].color = RED_
       THEN RedSibling(Toward(RSet(RSet(t, Sib(t), "color", BLACK_), x_parent,
                                   "color", RED_), x_parent))
       ELSE BlackSibling(t, Sib(t))

\* unlink z, rebalance, and destroy z
_Rb_tree_rebalance_for_erase(t, z) ==
  LET zl == t.node[z].left
      zr == t.node[z].right
      y == IF zl = NoNode \/ zr = NoNode THEN z ELSE RLeftmost(t, zr)
      x == IF zl = NoNode THEN zr
           ELSE IF zr = NoNode THEN zl
           ELSE t.node[y].right
      x_parent == IF y # z /\ y = zr THEN y ELSE t.node[y].parent
      Detach(a1) ==
        IF y # zr
        THEN RSet(RSet(RSet(RSet(a1, x, "parent", t.node[y].parent),
                            t.node[y].parent, "left", x),
                       y, "right", zr),
                  zr, "parent", y)
        ELSE a1
      SwapColours(a4) ==
        RSet(RSet(a4, y, "color", t.node[z].color), z, "color",
             t.node[y].color)
      Rebalance(unlinked) ==
        IF unlinked.node[z].color # RED_
        THEN EraseRebalance(unlinked, x, x_parent)
        ELSE unlinked
      Destroy(t1) == [t1 EXCEPT !.node[z] = gccnode]
  IN IF y # z
     THEN Destroy(Rebalance(SwapColours(
            RSet(RReplace(t, Detach(RSet(RSet(t, zl, "parent", y), y, "left",
                                         zl)),
                          z, y),
                 y, "parent", t.node[z].parent))))
     ELSE Destroy(Rebalance(
            RReplace(t, RSet(t, x, "parent", t.node[y].parent), z, x)))

\* gccRBTree.erase(gccRBTree.find(key)), when the key is found
REraseKey(t, key) ==
  IF RFind(t, key) = NoNode THEN t ELSE _Rb_tree_rebalance_for_erase(t, key)

RKeys(t) == {k \in Keys : RFind(t, k) # NoNode}

\* ------------------------------------------------------------ the program
VARIABLES
  tree_, size_, capacity_, hashable_capacity_, collision_head_,
  collision_tail_, root_, first_index_cache_, last_index_cache_,
  droRBTree2, \* the FlatRBTree: its tree_, size_, capacity_ and root_
  variant,    \* the container under test: "hash_flat_set" or "FlatSet"
  status,     \* "ok", or how the last call ended the run: "hang", "crash"
  op,         \* the last call and what it returned
  hash_,      \* the hasher the container was instantiated with
  calls,      \* number of calls made so far
  gccRBTree   \* the reference tree given the same calls

container ==
  <<tree_, size_, capacity_, hashable_capacity_, collision_head_,
    collision_tail_, root_, first_index_cache_, last_index_cache_>>

vars == <<container, droRBTree2, variant, hash_, status, op, calls, gccRBTree>>

\* memory outside the vector, as an out-of-range tree_[i] finds it
GarbageLinks == {empty_index_, 0}
GarbageNodes ==
  {[pair_ |-> 0, fingerprint_full_clr_ |-> w, next_ |-> 0, parent_ |-> p,
    left_ |-> l, right_ |-> r] :
     w \in {0, 2}, p \in GarbageLinks, l \in GarbageLinks,
     r \in GarbageLinks}
FlatGarbageNodes ==
  {[pair_ |-> 0, parent_ |-> p, left_ |-> l, right_ |-> r, color_ |-> c] :
     p \in GarbageLinks, l \in GarbageLinks,
     r \in GarbageLinks, c \in BOOLEAN}

\* the container as a value, ready for a call
Self(ghost) ==
  [tree_ |-> tree_, size_ |-> size_, capacity_ |-> capacity_,
   hashable_capacity_ |-> hashable_capacity_,
   collision_head_ |-> collision_head_, collision_tail_ |-> collision_tail_,
   root_ |-> root_, first_index_cache_ |-> first_index_cache_,
   last_index_cache_ |-> last_index_cache_,
   oob |-> FALSE, hang |-> FALSE, exc |-> "none", ghost |-> ghost,
   hash_ |-> hash_]

This == Self(flatnode)

FlatSelf(ghost) ==
  [tree_ |-> droRBTree2.tree_, size_ |-> droRBTree2.size_,
   capacity_ |-> droRBTree2.capacity_, root_ |-> droRBTree2.root_,
   oob |-> FALSE, hang |-> FALSE, exc |-> "none", ghost |-> ghost]

FlatThis == FlatSelf(Node)

\* The ways a call on self can end, r being its result when memory outside
\* the vector reads as the default node.  A call that stays inside the vector
\* has one outcome.  A call that leaves it is undefined behaviour: the build
\* either stops with a fault or goes on with whatever the foreign memory
\* holds (retries: the results of the call for each such content).
Outcomes(self, r, retries) ==
  IF ~r.st.oob THEN {r}
  ELSE retries \cup {[st |-> self, first |-> empty_index_, second |-> FALSE,
                      crash |-> TRUE]}

Ended(r) ==
  IF "crash" \in DOMAIN r THEN "crash"
  ELSE IF r.st.hang THEN "hang"
  ELSE IF r.st.exc # "none" THEN "threw"
  ELSE "ok"

\* what the call leaves outside the container: the record of the call and
\* the reference tree, which is given the same call
Recorded(name, key, r) ==
  /\ status' = Ended(r)
  /\ op' = [name |-> name, key |-> key, first |-> r.first,
            second |-> r.second, oob |-> r.st.oob]
  /\ calls' = calls + 1
  /\ gccRBTree' = IF Ended(r) # "ok" \/ key \notin Keys THEN gccRBTree
                  ELSE IF name = "insert"
                  THEN _M_emplace_unique(gccRBTree, key)
                  ELSE IF name = "clear" THEN _Rb_tree
                  ELSE IF name \in {"reserve", "shrink_to_fit"} THEN gccRBTree
                  ELSE REraseKey(gccRBTree, key)
  /\ UNCHANGED <<hash_, variant>>

\* the call returned r: the container takes the state it left
Return(name, key, r) ==
  LET s == IF Ended(r) \in {"ok", "threw"} THEN r.st ELSE This
  IN /\ tree_' = s.tree_
     /\ size_' = s.size_
     /\ capacity_' = s.capacity_
     /\ hashable_capacity_' = s.hashable_capacity_
     /\ collision_head_' = s.collision_head_
     /\ collision_tail_' = s.collision_tail_
     /\ root_' = s.root_
     /\ first_index_cache_' = s.first_index_cache_
     /\ last_index_cache_' = s.last_index_cache_
     /\ Recorded(name, key, r)
     /\ UNCHANGED droRBTree2

FlatReturn(name, key, r) ==
  LET s == IF Ended(r) \in {"ok", "threw"} THEN r.st ELSE FlatThis
  IN /\ droRBTree2' = [tree_ |-> s.tree_, size_ |-> s.size_,
                       capacity_ |-> s.capacity_, root_ |-> s.root_]
     /\ Recorded(name, key, r)
     /\ UNCHANGED container

\* a run is made on a hybrid with one of the hashers or on a flat tree
Init ==
  \E v \in {[variant |-> "hash_flat_set", hash |-> h] : h \in Hashers}
           \cup {[variant |-> "FlatSet", hash |-> "std::hash"]} :
  LET s == hash_flat_base(InitCapacity, v.hash, flatnode)
      f == FlatRBTree(FlatInitCapacity, Node)
  IN /\ variant = v.variant
     /\ hash_ = v.hash
     /\ tree_ = s.tree_
     /\ size_ = s.size_
     /\ capacity_ = s.capacity_
     /\ hashable_capacity_ = s.hashable_capacity_
     /\ collision_head_ = s.collision_head_
     /\ collision_tail_ = s.collision_tail_
     /\ root_ = s.root_
     /\ first_index_cache_ = s.first_index_cache_
     /\ last_index_cache_ = s.last_index_cache_
     /\ droRBTree2 = [tree_ |-> f.tree_, size_ |-> f.size_,
                      capacity_ |-> f.capacity_, root_ |-> f.root_]
     /\ status = "ok"
     /\ op = [name |-> "construct", key |-> 0, first |-> empty_index_,
              second |-> FALSE, oob |-> FALSE]
     /\ calls = 0
     /\ gccRBTree = _Rb_tree

\* a call can be made: the run has not ended and its length is in bounds
Ready == status = "ok" /\ calls < MaxCalls

\* hash_flat_set: emplace(key) / insert(key)
Insert(key) ==
  /\ Ready /\ variant = "hash_flat_set"
  /\ \E r \in Outcomes(This, _emplace(This, key),
                       {_emplace(Self(g), key) : g \in GarbageNodes}) :
       Return("insert", key, r)

\* hash_flat_set: erase(key)
Erase(key) ==
  /\ Ready /\ variant = "hash_flat_set"
  /\ \E r \in Outcomes(This, _erase(This, key),
                       {_erase(Self(g), key) : g \in GarbageNodes}) :
       Return("erase", key, r)

\* FlatSet: emplace(key) / insert(key)
FlatInsert(key) ==
  /\ Ready /\ variant = "FlatSet"
  /\ \E r \in Outcomes(FlatThis, Flat_emplace(FlatThis, key),
                       {Flat_emplace(FlatSelf(g), key) :
                          g \in FlatGarbageNodes}) :
       FlatReturn("insert", key, r)

\* FlatSet: erase(key)
FlatErase(key) ==
  /\ Ready /\ variant = "FlatSet"
  /\ \E r \in Outcomes(FlatThis, Flat_erase(FlatThis, key),
                       {Flat_erase(FlatSelf(g), key) :
                          g \in FlatGarbageNodes}) :
       FlatReturn("erase", key, r)

\* hash_flat_set: erase(pos), pos an iterator at a live element:
\* iterator(this, _erase(tree_[pos.index_].pair_.first).second)
EraseIterator(pos) ==
  /\ Ready /\ variant = "hash_flat_set"
  /\ pos \in DOMAIN tree_ /\ _get_full(tree_[pos].fingerprint_full_clr_)
  /\ \E r \in Outcomes(This, _erase(This, tree_[pos].pair_),
                       {_erase(Self(g), tree_[pos].pair_) :
                          g \in GarbageNodes}) :
       Return("erase_iterator", tree_[pos].pair_, r)

\* FlatSet: erase(pos), pos an iterator at a live element
FlatEraseIterator(pos) ==
  /\ Ready /\ variant = "FlatSet"
  /\ pos \in DOMAIN droRBTree2.tree_ /\ pos < droRBTree2.size_
  /\ \E r \in Outcomes(FlatThis, Flat_erase_iterator(FlatThis, pos),
                       {Flat_erase_iterator(FlatSelf(g), pos) :
                          g \in FlatGarbageNodes}) :
       FlatReturn("erase_iterator", droRBTree2.tree_[pos].pair_, r)

\* hash_flat_set: clear()
Clear ==
  /\ Ready /\ variant = "hash_flat_set"
  /\ Return("clear", 0, [st |-> clear(This), first |-> empty_index_,
                         second |-> FALSE])

\* FlatSet: clear()
FlatClear ==
  /\ Ready /\ variant = "FlatSet"
  /\ FlatReturn("clear", 0, [st |-> Flat_clear(FlatThis),
                             first |-> empty_index_, second |-> FALSE])

Next ==
  \/ \E key \in Keys : Insert(key)
  \/ \E key \in Keys : Erase(key)
  \/ \E key \in Keys : FlatInsert(key)
  \/ \E key \in Keys : FlatErase(key)

Spec == Init /\ [][Next]_vars

\* the calls of the unit tests: insert, erase and clear
NextClear ==
  \/ Next
  \/ Clear
  \/ FlatClear

SpecClear == Init /\ [][NextClear]_vars

\* ---- runs with reserve and shrink_to_fit, which the flat tree alone has
\* capacities asked of reserve
ReserveSizes == {0, InitCapacity, MaxKey + 1}

\* FlatSet: reserve(new_cap)
FlatReserve(new_cap) ==
  /\ Ready /\ variant = "FlatSet"
  /\ FlatReturn("reserve", new_cap,
                [st |-> reserve(FlatThis, new_cap), first |-> empty_index_,
                 second |-> FALSE])

\* FlatSet: shrink_to_fit()
FlatShrinkToFit ==
  /\ Ready /\ variant = "FlatSet"
  /\ \E r \in Outcomes(FlatThis,
                        [st |-> shrink_to_fit(FlatThis),
                         first |-> empty_index_, second |-> FALSE], {}) :
       FlatReturn("shrink_to_fit", 0, r)

NextReserve ==
  \/ \E key \in Keys : FlatInsert(key)
  \/ \E key \in Keys : FlatErase(key)
  \/ \E new_cap \in ReserveSizes : FlatReserve(new_cap)
  \/ FlatShrinkToFit

InitReserve == Init /\ variant = "FlatSet"

SpecReserve == InitReserve /\ [][NextReserve]_vars

\* ---- one rotation, made on a container built by inserts
\* what a rotation leaves outside the container
Rotated(name, node) ==
  /\ status' = "rotated"
  /\ op' = [name |-> name, key |-> node, first |-> empty_index_,
            second |-> FALSE, oob |-> FALSE]
  /\ calls' = calls + 1
  /\ UNCHANGED <<hash_, variant, gccRBTree>>

\* hash_flat_set: _rotate_left(index) / _rotate_right(index) on a node that
\* has the child the rotation lifts
Rotate(name, index) ==
  /\ Ready /\ variant = "hash_flat_set"
  /\ _get_full(tree_[index].fingerprint_full_clr_)
  /\ empty_index_ # IF name = "_rotate_left" THEN tree_[index].right_
                    ELSE tree_[index].left_
  /\ LET s == IF name = "_rotate_left" THEN _rotate_left(This, index)
              ELSE _rotate_right(This, index)
     IN tree_' = s.tree_ /\ root_' = s.root_
  /\ UNCHANGED <<size_, capacity_, hashable_capacity_, collision_head_,
                 collision_tail_, first_index_cache_, last_index_cache_,
                 droRBTree2>>
  /\ Rotated(name, index)

\* FlatRBTree: _rotateLeft(node) / _rotateRight(node)
FlatRotate(name, node) ==
  /\ Ready /\ variant = "FlatSet"
  /\ node < droRBTree2.size_
  /\ empty_index_ # IF name = "_rotateLeft"
                    THEN droRBTree2.tree_[node].right_
                    ELSE droRBTree2.tree_[node].left_
  /\ LET s == IF name = "_rotateLeft" THEN _rotateLeft(FlatThis, node).st
              ELSE _rotateRight(FlatThis, node).st
     IN droRBTree2' = [droRBTree2 EXCEPT !.tree_ = s.tree_]
  /\ UNCHANGED container
  /\ Rotated(name, node)

NextRotate ==
  \/ \E key \in Keys : Insert(key)
  \/ \E key \in Keys : FlatInsert(key)
  \/ \E name \in {"_rotate_left", "_rotate_right"} :
       \E index \in DOMAIN tree_ : Rotate(name, index)
  \/ \E name \in {"_rotateLeft", "_rotateRight"} :
       \E node \in DOMAIN droRBTree2.tree_ : FlatRotate(name, node)

SpecRotate == Init /\ [][NextRotate]_vars

\* ------------------------------------------------------------ the scenario
\* insert 5, 3, 8, 1, 4, 7, 9 and then erase(5)
ScenarioCalls ==
  [i \in 1..7 |-> [name |-> "insert", key |-> <<5, 3, 8, 1, 4, 7, 9>>[i]]]
  \o <<[name |-> "erase", key |-> 5]>>

\* capacities the containers of the scenario are constructed with
ScenarioCapacities == 1..(2 * MaxKey)

InitScenario ==
  \E v \in {[variant |-> "hash_flat_set", hash |-> h] : h \in Hashers}
           \cup {[variant |-> "FlatSet", hash |-> "std::hash"]} :
  \E capacity \in ScenarioCapacities :
  LET s == hash_flat_base(IF v.variant = "hash_flat_set" THEN capacity
                          ELSE InitCapacity, v.hash, flatnode)
      f == FlatRBTree(IF v.variant = "FlatSet" THEN capacity
                      ELSE FlatInitCapacity, Node)
  IN /\ variant = v.variant
     /\ hash_ = v.hash
     /\ tree_ = s.tree_
     /\ size_ = s.size_
     /\ capacity_ = s.capacity_
     /\ hashable_capacity_ = s.hashable_capacity_
     /\ collision_head_ = s.collision_head_
     /\ collision_tail_ = s.collision_tail_
     /\ root_ = s.root_
     /\ first_index_cache_ = s.first_index_cache_
     /\ last_index_cache_ = s.last_index_cache_
     /\ droRBTree2 = [tree_ |-> f.tree_, size_ |-> f.size_,
                      capacity_ |-> f.capacity_, root_ |-> f.root_]
     /\ status = "ok"
     /\ op = [name |-> "construct", key |-> capacity, first |-> empty_index_,
              second |-> FALSE, oob |-> FALSE]
     /\ calls = 0
     /\ gccRBTree = _Rb_tree

\* the next call of the scenario, made on the container under test
ScenarioCall ==
  /\ status = "ok" /\ calls < Len(ScenarioCalls)
  /\ LET call == ScenarioCalls[calls + 1]
     IN IF variant = "hash_flat_set"
        THEN \E r \in Outcomes(
                        This,
                        IF call.name = "insert" THEN _emplace(This, call.key)
                        ELSE _erase(This, call.key),
                        {IF call.name = "insert"
                         THEN _emplace(Self(g), call.key)
                         ELSE _erase(Self(g), call.key) :
                           g \in GarbageNodes}) :
               Return(call.name, call.key, r)
        ELSE \E r \in Outcomes(
                        FlatThis,
                        IF call.name = "insert"
                        THEN Flat_emplace(FlatThis, call.key)
                        ELSE Flat_erase(FlatThis, call.key),
                        {IF call.name = "insert"
                         THEN Flat_emplace(FlatSelf(g), call.key)
                         ELSE Flat_erase(FlatSelf(g), call.key) :
                           g \in FlatGarbageNodes}) :
               FlatReturn(call.name, call.key, r)

SpecScenario == InitScenario /\ [][ScenarioCall]_vars

\* the calls of the validation tests: insert, and erase by the iterator that
\* find returned
NextIterator ==
  \/ \E key \in Keys : Insert(key)
  \/ \E pos \in 0..(2^IndexBits - 1) : EraseIterator(pos)
  \/ \E key \in Keys : FlatInsert(key)
  \/ \E pos \in 0..(2^IndexBits - 1) : FlatEraseIterator(pos)

SpecIterator == Init /\ [][NextIterator]_vars

\* ------------------------------------------- at the end of the index type
\* capacities given to the constructor
Capacities == {0, FlatInitCapacity, InitCapacity, empty_index_}

\* numbers of elements the containers are filled with
FillSizes ==
  {0, 2^(IndexBits - 1) - 1, 2^(IndexBits - 1), empty_index_ - 1,
   empty_index_}

\* insert(first, last) of the keys key, key + 1, .., n - 1, up to the first
\* call that does not return normally
RECURSIVE Fill(_, _, _, _)
Fill(st, hybrid, key, n) ==
  IF n <= key \/ st.oob \/ st.hang \/ st.exc # "none" THEN st
  ELSE IF n = key + 1
  THEN IF hybrid THEN _emplace(st, key).st ELSE Flat_emplace(st, key).st
  ELSE Fill(Fill(st, hybrid, key, key + (n - key) \div 2), hybrid,
            key + (n - key) \div 2, n)

\* a run starts with a container constructed with one of the capacities
\* and, when the constructor returned, filled with n elements
InitLimits ==
  \E v \in {[variant |-> "hash_flat_set", hash |-> h] : h \in Hashers}
           \cup {[variant |-> "FlatSet", hash |-> "std::hash"]} :
  \E capacity \in Capacities : \E n \in FillSizes :
  LET hybrid == v.variant = "hash_flat_set"
      s == IF hybrid
           THEN Fill(hash_flat_base(capacity, v.hash, flatnode), TRUE, 0, n)
           ELSE hash_flat_base(InitCapacity, v.hash, flatnode)
      f == IF hybrid THEN FlatRBTree(FlatInitCapacity, Node)
           ELSE Fill(FlatRBTree(capacity, Node), FALSE, 0, n)
      made == IF hybrid THEN s ELSE f
  IN /\ ~made.oob /\ ~made.hang
     /\ made.size_ = IF made.exc # "none" THEN 0 ELSE n
     /\ variant = v.variant
     /\ hash_ = v.hash
     /\ tree_ = s.tree_
     /\ size_ = s.size_
     /\ capacity_ = s.capacity_
     /\ hashable_capacity_ = s.hashable_capacity_
     /\ collision_head_ = s.collision_head_
     /\ collision_tail_ = s.collision_tail_
     /\ root_ = s.root_
     /\ first_index_cache_ = s.first_index_cache_
     /\ last_index_cache_ = s.last_index_cache_
     /\ droRBTree2 = [tree_ |-> f.tree_, size_ |-> f.size_,
                      capacity_ |-> f.capacity_, root_ |-> f.root_]
     /\ status = IF made.exc # "none" THEN "threw" ELSE "ok"
     /\ op = [name |-> "construct", key |-> capacity, first |-> empty_index_,
              second |-> FALSE, oob |-> FALSE]
     /\ calls = 0
     /\ gccRBTree = _Rb_tree

\* the calls made on it: insert of a key it holds and of the next new key
NextLimits ==
  \/ \E key \in {0, size_} : Insert(key)
  \/ \E key \in {0, droRBTree2.size_} : FlatInsert(key)

SpecLimits == InitLimits /\ [][NextLimits]_vars

\* ------------------------------------------------------------------------
\* Observations of a state
\* ------------------------------------------------------------------------
\* the container under test and the fields the two classes share
Hybrid == variant = "hash_flat_set"
Tree == IF Hybrid THEN tree_ ELSE droRBTree2.tree_
Root == IF Hybrid THEN root_ ELSE droRBTree2.root_
Size == IF Hybrid THEN size_ ELSE droRBTree2.size_
Slots == DOMAIN Tree

\* live slots: in the hybrid the slots whose full flag is set, in the flat
\* tree the slots below size_
Live ==
  IF Hybrid THEN {i \in Slots : _get_full(Tree[i].fingerprint_full_clr_)}
  ELSE {i \in Slots : i < Size}
LiveKeys == {Tree[i].pair_ : i \in Live}
Present(k) == k \in LiveKeys

Key(i) == Tree[i].pair_
IsBlack(i) ==
  IF Hybrid THEN _get_color(Tree[i].fingerprint_full_clr_) = BLACK_
  ELSE Tree[i].color_ = BLACK_
Children(i) == {Tree[i].left_, Tree[i].right_} \ {empty_index_}

\* slots reached from the frontier by left/right links
RECURSIVE Reach(_, _)
Reach(seen, frontier) ==
  IF frontier = {} THEN seen
  ELSE LET now == seen \cup frontier
       IN Reach(now, UNION {Children(i) : i \in frontier \cap Slots} \ now)

TreeNodes == Reach({}, {Root} \ {empty_index_})

\* the slots of the subtree below index (index included)
Subtree(index) == Reach({}, {index} \ {empty_index_})

\* the numbers of black nodes met on the paths from index down to an empty
\* link; -1 stands for a path that never gets there
RECURSIVE BlackCounts(_, _)
BlackCounts(index, fuel) ==
  IF index = empty_index_ THEN {0}
  ELSE IF fuel = 0 \/ index \notin Slots THEN {-1}
  ELSE LET below == BlackCounts(Tree[index].left_, fuel - 1)
                    \cup BlackCounts(Tree[index].right_, fuel - 1)
       IN {IF c = -1 THEN -1 ELSE c + (IF IsBlack(index) THEN 1 ELSE 0) :
           c \in below}

\* operator++ of an iterator at index (of a reverse iterator when reverse)
Increment(reverse, index) ==
  IF Hybrid
  THEN IF reverse THEN _prev(This, index) ELSE _next(This, index)
  ELSE IF reverse THEN Flat_prev(FlatThis, index)
       ELSE Flat_next(FlatThis, index)

\* keys met by repeated operator++ from index, in the order met; a walk
\* that does not end, or leaves the vector, gets an extra element so that it
\* differs from every walk that ends at end()
RECURSIVE Walk(_, _, _)
Walk(reverse, index, fuel) ==
  IF index = empty_index_ THEN <<>>
  ELSE IF fuel = 0 \/ index \notin Slots THEN <<MaxKey + 1>>
  ELSE LET r == Increment(reverse, index)
       IN IF r.hang \/ r.oob THEN <<Key(index), MaxKey + 1>>
          ELSE <<Key(index)>> \o Walk(reverse, r.v, fuel - 1)

\* begin() and rbegin()
Begin == IF Hybrid THEN _first(This) ELSE Flat_first(FlatThis).v
RBegin == IF Hybrid THEN _last(This) ELSE Flat_last(FlatThis).v

\* for (it = begin(); it != end(); ++it) and the same from rbegin()
Forward == Walk(FALSE, Begin, Cardinality(Slots) + 1)
Reverse == Walk(TRUE, RBegin, Cardinality(Slots) + 1)

\* the keys of S in comparator order
RECURSIVE Sorted(_)
Sorted(S) ==
  IF S = {} THEN <<>>
  ELSE LET m == CHOOSE x \in S : \A y \in S : ~compare_(y, x)
       IN <<m>> \o Sorted(S \ {m})

Reversed(s) == [i \in 1..Len(s) |-> s[Len(s) + 1 - i]]

\* traverseTree of the validation tests: TRUE when it throws nothing
RECURSIVE traverseTree(_, _)
traverseTree(droNode, gccNode) ==
  LET Side(droChild, gccChild) ==
        IF gccChild # NoNode
        THEN /\ droChild \in Slots
             /\ Key(droChild) = gccChild
             /\ IsBlack(droChild) = (gccRBTree.node[gccChild].color = BLACK_)
             /\ tree_[droChild].parent_ = droNode
             /\ traverseTree(droChild, gccChild)
        ELSE droChild = empty_index_
  IN /\ Side(tree_[droNode].left_, gccRBTree.node[gccNode].left)
     /\ Side(tree_[droNode].right_, gccRBTree.node[gccNode].right)

validateTree ==
  IF gccRBTree.root # NoNode
  THEN /\ root_ \in Slots
       /\ Key(root_) = gccRBTree.root
       /\ IsBlack(root_) = (gccRBTree.node[gccRBTree.root].color = BLACK_)
       /\ tree_[root_].parent_ = empty_index_
       /\ traverseTree(root_, gccRBTree.root)
  ELSE root_ = empty_index_

\* find(key): the index of the iterator it returns, and whether the lookup
\* fails to return
Find(key) ==
  IF Hybrid
  THEN [v |-> _find(This, key).first, hang |-> _find(This, key).hang]
  ELSE [v |-> Flat_find(FlatThis, key).v,
        hang |-> Flat_find(FlatThis, key).hang]

\* find(key) != end(), and the key find(key) dereferences to
Found(key) == ~Find(key).hang /\ Find(key).v # empty_index_
Deref(index) == IF index \in Slots THEN Key(index) ELSE MaxKey + 1

\* count(key)
Count(key) ==
  IF Hybrid THEN count(This, key) ELSE Flat_count(FlatThis, key)

\* at(key)
At(key) == IF Hybrid THEN at(This, key) ELSE Flat_at(FlatThis, key)

\* membership by descent of the tree: the node the descent stops at holds key
TreeHas(key) ==
  LET r == _lower_bound(This, key)
  IN /\ ~r.hang /\ ~r.oob
     /\ r.v \in Slots
     /\ equal_(Key(r.v), key)

\* the home bucket of key
HomeBucket(key) == tree_[_index_from_hash(This, _hash(This, key))]

\* capacity(), and the capacity the container was constructed with
Capacity == IF Hybrid THEN capacity_ ELSE droRBTree2.capacity_
InitialCapacity == IF Hybrid THEN InitCapacity ELSE FlatInitCapacity

\* the last call returned
Returned(name) == status = "ok" /\ op.name = name

\* ------------------------------------------------------------------------
\* Properties
\* ------------------------------------------------------------------------

\* C1: after any sequence of insert and erase calls the tree satisfies the
\* red-black colouring rules: the root is black, no red node has a red
\* child, and every path from the root to an empty slot contains the same
\* number of black nodes.
RBColouring ==
  /\ TreeNodes \subseteq Slots
  /\ Root # empty_index_ => IsBlack(Root)
  /\ \A i \in TreeNodes : ~IsBlack(i) => \A c \in Children(i) : IsBlack(c)
  /\ LET counts == BlackCounts(Root, Cardinality(Slots) + 1)
     IN Cardinality(counts) = 1 /\ -1 \notin counts

\* C2: after any sequence of insert and erase calls, for every node all
\* keys in its left subtree precede its key and all keys in its right
\* subtree follow its key under the comparator.
BSTOrder ==
  /\ TreeNodes \subseteq Slots
  /\ \A i \in TreeNodes :
       /\ \A j \in Subtree(Tree[i].left_) : compare_(Key(j), Key(i))
       /\ \A j \in Subtree(Tree[i].right_) : compare_(Key(i), Key(j))

\* C3: after any sequence of operations no two live elements have keys
\* that compare equal.
KeyUniqueness ==
  \A i \in Live : \A j \in Live : i # j => ~equal_(Key(i), Key(j))

\* a duplicate was offered to a hybrid of three or more elements, one of
\* them in the collision region, and was turned away
KeyUniquenessWitness ==
  /\ Hybrid /\ Returned("insert") /\ op.second = FALSE
  /\ Cardinality(Live) >= 3
  /\ \E i \in Live : i >= hashable_capacity_

\* C4: after every insert and every erase the hybrid tree is node-for-node
\* identical to the reference red-black tree given the same operations:
\* same key and colour at every position, an empty child exactly where the
\* reference has none.
NodeForNodeIdentical == (Hybrid /\ status = "ok") => validateTree

\* C5: forward iteration from begin() to end() visits exactly the live
\* keys in comparator order, and reverse iteration from rbegin() to rend()
\* visits them in exactly the reverse order.
SortedTraversal ==
  /\ Forward = Sorted(LiveKeys)
  /\ Reverse = Reversed(Sorted(LiveKeys))

\* C6: insert(k) followed by find(k) yields an iterator dereferencing to
\* k, and erase(k) followed by find(k) yields end.
RoundTrip ==
  /\ Returned("insert") => Found(op.key) /\ Deref(Find(op.key).v) = op.key
  /\ Returned("erase") => ~Find(op.key).hang /\ ~Found(op.key)

\* an erase removed a key from a chain of several elements of the hybrid,
\* by promoting the next one into the home slot or by unlinking a collision
\* slot
RoundTripWitness ==
  /\ Hybrid /\ Returned("erase") /\ op.first = TRUE
  /\ _get_full(HomeBucket(op.key).fingerprint_full_clr_)
  /\ size_ >= 2

\* C7: inserting a key that is already present leaves size unchanged and
\* returns found=false together with an iterator to the existing element
\* that holds that key.
DuplicateInsertStep ==
  \A k \in Keys :
    (Present(k) /\ status' = "ok" /\ op'.name = "insert" /\ op'.key = k)
    => /\ Size' = Size
       /\ op'.second = FALSE
       /\ op'.first \in Live'
       /\ Tree'[op'.first].pair_ = k
DuplicateInsert == [][DuplicateInsertStep]_vars

\* C8: erasing a key that is not present is a no-op: it returns 0, and
\* size and the stored elements are unchanged.
EraseAbsentStep ==
  \A k \in Keys :
    (~Present(k) /\ status' = "ok" /\ op'.name = "erase" /\ op'.key = k)
    => /\ op'.first = FALSE
       /\ Size' = Size
       /\ Tree' = Tree
EraseAbsent == [][EraseAbsentStep]_vars

\* an absent key was offered to erase while its bucket in the hybrid held
\* other keys
EraseAbsentWitness ==
  /\ Hybrid /\ Returned("erase") /\ op.first = FALSE
  /\ _get_full(HomeBucket(op.key).fingerprint_full_clr_)
  /\ HomeBucket(op.key).next_ # 0

\* C9: in every reachable state size() equals the number of live slots,
\* and count(k) is 1 if k is present and 0 otherwise.
SizeAndCount ==
  /\ Size = Cardinality(Live)
  /\ \A k \in Keys :
       /\ ~Find(k).hang
       /\ Count(k) = IF Present(k) THEN 1 ELSE 0

\* after an erase that removed an element, three elements are left in the
\* hybrid and some key is absent
SizeAndCountWitness ==
  /\ Hybrid /\ Returned("erase") /\ op.first = TRUE
  /\ size_ = 3
  /\ \E k \in Keys : ~Present(k)

\* C10: after every mutation and for every key, membership decided by the
\* hash-chain lookup agrees with membership decided by tree descent, and
\* both agree with the reference ordered set.
HashTreeAgreement ==
  (Hybrid /\ status = "ok") =>
    \A k \in Keys :
      /\ Found(k) = TreeHas(k)
      /\ Found(k) = (k \in RKeys(gccRBTree))

\* C11: erase(iterator) on a live element returns an iterator to the element
\* that was its in-order successor (end if it was the maximum), also when
\* the erase relocates that successor to a different slot.
EraseIteratorStep ==
  \A k \in Keys :
    (Present(k) /\ status' = "ok" /\ op'.name = "erase_iterator"
       /\ op'.key = k)
    => LET after == {j \in LiveKeys : compare_(k, j)}
       IN IF after = {} THEN op'.second = empty_index_
          ELSE /\ op'.second \in Live'
               /\ Tree'[op'.second].pair_ = Sorted(after)[1]
EraseReturnsSuccessor == [][EraseIteratorStep]_vars

\* C12: inserting more elements than the initial capacity triggers one or
\* more capacity growths, after which the container holds exactly the full
\* set of inserted elements in sorted order.  Stated for the runs that
\* consist of inserts of new keys (size equals the number of calls made):
\* each such insert leaves the elements held before together with the new
\* one, and once the size is above the initial capacity the capacity is
\* larger and forward iteration visits the elements in comparator order.
GrowthStep ==
  (Size = calls /\ status' = "ok" /\ op'.name = "insert"
     /\ op'.second = TRUE)
  => Size' = Size + 1 /\ LiveKeys' = LiveKeys \cup {op'.key}
Grown == status = "ok" /\ Size = calls /\ Size > InitialCapacity
GrowthKeepsElements ==
  /\ [](Grown => Capacity > InitialCapacity /\ Forward = Sorted(LiveKeys))
  /\ [][GrowthStep]_vars

\* C13: constructing a container with an initial capacity equal to the
\* sentinel value (the maximum of the index type) raises an invalid-argument
\* error.
SentinelCapacityRejected ==
  (op.name = "construct" /\ op.key = empty_index_) => status = "threw"

\* C14: at(k) raises an out-of-range error when k is absent and returns the
\* value mapped to k when k is present.
AtChecked ==
  \A k \in Keys :
    /\ ~At(k).hang
    /\ IF Present(k) THEN At(k).exc = "none" /\ At(k).v = Mapped(k)
       ELSE At(k).exc = "out_of_range"

\* the hybrid holds a key in a collision slot, behind the key of its home
\* slot, and another key hashing to that bucket is absent
AtCheckedWitness ==
  /\ Hybrid /\ status = "ok"
  /\ \E k \in Keys :
       /\ Present(k) /\ _find(This, k).first >= hashable_capacity_
       /\ \E j \in Keys :
            /\ ~Present(j)
            /\ _index_from_hash(This, _hash(This, j))
                 = _index_from_hash(This, _hash(This, k))

\* C15: an insert of a new key into a container whose size has reached the
\* sentinel value raises the sizing error and stores nothing
SizingErrorStep ==
  (/\ status = "ok" /\ Size = empty_index_
   /\ op'.name = "insert" /\ op'.key \notin LiveKeys)
  => status' = "threw" /\ LiveKeys' = LiveKeys

SizingErrorRaised == [][SizingErrorStep]_vars

\* C16: lookups of an absent key, erase of an absent key and insert of a
\* present key raise nothing: find returns end and count 0, erase returns 0
\* and insert returns found=false.
TotalStep ==
  /\ (op'.name = "erase" /\ ~Present(op'.key))
     => status' = "ok" /\ op'.first = FALSE
  /\ (op'.name = "insert" /\ Present(op'.key))
     => status' = "ok" /\ op'.second = FALSE

Prefix == 0..(Size - 1)

\* C17: in the flat tree the elements occupy exactly the slots [0, size):
\* these slots lie in the store, hold the keys of the set, each once, and are
\* the nodes of the tree; after an erase the slots below the new size hold
\* the elements that are left, the one of the last slot among them.
DensityStep ==
  (~Hybrid /\ status' = "ok" /\ op'.name = "erase" /\ op'.first = TRUE)
  => /\ Size' = Size - 1
     /\ {Tree'[i].pair_ : i \in 0..(Size' - 1)} = LiveKeys \ {op'.key}

Density ==
  /\ [](~Hybrid =>
          /\ Prefix \subseteq Slots
          /\ {Key(i) : i \in Prefix} = RKeys(gccRBTree)
          /\ \A i \in Prefix : \A j \in Prefix : i # j => Key(i) # Key(j)
          /\ TreeNodes = Prefix)
  /\ [][DensityStep]_vars

\* an erase took an element out of a flat tree of four or more elements
\* whose store has room left
DensityWitness ==
  /\ ~Hybrid /\ Returned("erase") /\ op.first = TRUE
  /\ Size >= 3 /\ Size < Capacity

\* the home bucket index of the key held in slot i
Home(i) == _index_from_hash(This, _hash(This, Key(i)))

\* slot i has its place in a hash chain: a slot of the hashable region is
\* the home bucket of its key, the chain from the home bucket leads to i, and
\* next_ ends the chain or leads to a live collision slot of the same bucket
ChainPosition(i) ==
  /\ i < hashable_capacity_ => Home(i) = i
  /\ ~_find(This, Key(i)).hang /\ _find(This, Key(i)).first = i
  /\ Tree[i].next_ # 0
     => /\ Tree[i].next_ \in Live
        /\ Tree[i].next_ >= hashable_capacity_
        /\ Home(Tree[i].next_) = Home(i)

\* slot i has its place in the tree: its children are live slots whose
\* parent_ is i, and its parent_ is the sentinel for the root and else a live
\* slot that has i as a child
TreePosition(i) ==
  /\ \A c \in Children(i) : c \in Live /\ Tree[c].parent_ = i
  /\ Tree[i].left_ = empty_index_ \/ Tree[i].left_ # Tree[i].right_
  /\ Tree[i].parent_ = empty_index_ <=> i = Root
  /\ Tree[i].parent_ # empty_index_
     => Tree[i].parent_ \in Live /\ i \in Children(Tree[i].parent_)

\* C18: in every reachable state of the hybrid the link fields of each live
\* slot describe a valid hash-chain position and a valid tree position.
DualLinkage == Hybrid => \A i \in Live : ChainPosition(i) /\ TreePosition(i)

HashChainLinkage == Hybrid => \A i \in Live : ChainPosition(i)

\* C19: the sentinel value never denotes a live slot, and the capacity never
\* exceeds one less than it: no call takes a capacity below the sentinel
\* value to the sentinel value.
CapacityStep == Capacity < empty_index_ => Capacity' < empty_index_

SentinelReserved ==
  /\ [](empty_index_ \notin Live)
  /\ [][CapacityStep]_vars

SentinelNeverLive == empty_index_ \notin Live

\* C20: after every insert and erase each non-empty child link of a node
\* leads to a node whose parent link leads back to it, and the parent link of
\* the root is the sentinel; the root index is the sentinel when the tree is
\* empty.
ParentLinks ==
  /\ \A i \in Live : \A c \in Children(i) : c \in Slots /\ Tree[c].parent_ = i
  /\ IF Live = {} THEN Root = empty_index_
     ELSE Root \in Slots /\ Tree[Root].parent_ = empty_index_

FlatParentLinks == ~Hybrid => ParentLinks

\* C21: after clear() the container is empty: size() is 0, begin() equals
\* end(), and no key is found.
ClearEmpties ==
  op.name = "clear"
  => /\ status = "ok"
     /\ Size = 0
     /\ Begin = empty_index_
     /\ \A k \in Keys : ~Find(k).hang /\ Find(k).v = empty_index_

\* clear() has returned on a hybrid that has grown and whose slots still
\* hold the keys stored before
ClearEmptiesWitness ==
  /\ op.name = "clear" /\ Hybrid /\ capacity_ > InitCapacity
  /\ Cardinality({i \in Slots : Tree[i].pair_ # 0}) >= 2

\* C22: after inserting 5, 3, 8, 1, 4, 7, 9 in that order forward iteration
\* yields 1, 3, 4, 5, 7, 8, 9, and after erase(5) it yields 1, 3, 4, 7, 8,
\* 9, find(3) succeeds and find(100) fails.
ScenarioB ==
  /\ status = "ok"
  /\ calls = 7 => Forward = <<1, 3, 4, 5, 7, 8, 9>>
  /\ calls = 8
     => /\ Forward = <<1, 3, 4, 7, 8, 9>>
        /\ ~Find(3).hang /\ Find(3).v \in Slots /\ Tree[Find(3).v].pair_ = 3
        /\ ~Find(100).hang /\ Find(100).v = empty_index_

\* the scenario has run to its end on a hybrid whose hasher makes the keys
\* collide
ScenarioBWitness ==
  /\ Hybrid /\ hash_ = "low_bit"
  /\ calls = Len(ScenarioCalls) /\ Returned("erase") /\ op.first = TRUE

\* C23: in every reachable state of the hybrid the cached first index names
\* the live slot with the least key and the cached last index the live slot
\* with the greatest key; both are the sentinel when the container is empty.
CachedExtrema ==
  Hybrid =>
    IF Live = {}
    THEN first_index_cache_ = empty_index_ /\ last_index_cache_ = empty_index_
    ELSE /\ first_index_cache_ \in Live
         /\ \A k \in LiveKeys : ~compare_(k, Tree[first_index_cache_].pair_)
         /\ last_index_cache_ \in Live
         /\ \A k \in LiveKeys : ~compare_(Tree[last_index_cache_].pair_, k)

\* the slot the hash lookup finds key in
Slot(key) == _find(This, key).first

\* C24: when erase removes the element of a home slot that has chained
\* successors, the payload of the next element of the chain is promoted into
\* the home slot and the slot it came from is freed; every key left in the
\* container is found by hash lookup afterwards.
PromotionStep ==
  (/\ Hybrid /\ status' = "ok" /\ op'.name = "erase" /\ op'.first = TRUE
   /\ Slot(op'.key) = _index_from_hash(This, _hash(This, op'.key))
   /\ Tree[Slot(op'.key)].next_ # 0)
  => /\ Tree'[Slot(op'.key)].pair_ = Tree[Tree[Slot(op'.key)].next_].pair_
     /\ _get_full(Tree'[Slot(op'.key)].fingerprint_full_clr_)
     /\ ~_get_full(Tree'[Tree[Slot(op'.key)].next_].fingerprint_full_clr_)
     /\ LiveKeys' = LiveKeys \ {op'.key}

Promotion ==
  /\ [](Hybrid => \A i \in Live : ~_find(This, Key(i)).hang /\ Slot(Key(i)) = i)
  /\ [][PromotionStep]_vars

\* an erase has promoted an element into a home slot whose chain goes on
\* after it
PromotionWitness ==
  /\ Hybrid /\ Returned("erase") /\ op.first = TRUE
  /\ LET home == _index_from_hash(This, _hash(This, op.key))
     IN /\ _get_full(tree_[home].fingerprint_full_clr_)
        /\ tree_[home].pair_ # op.key
        /\ _hash(This, tree_[home].pair_) = _hash(This, op.key)
        /\ tree_[home].next_ # 0

\* the collision free list, from the slot after the list head tree_[
\* collision_head_] to collision_tail_; <<empty_index_>> ends a walk that
\* left the store or did not reach the tail
RECURSIVE FreeWalk(_, _)
FreeWalk(i, fuel) ==
  IF fuel = 0 \/ i \notin Slots THEN <<empty_index_>>
  ELSE IF i = collision_tail_ THEN <<i>>
  ELSE <<i>> \o FreeWalk(tree_[i].next_, fuel - 1)

FreeSlots ==
  IF collision_tail_ = collision_head_ \/ collision_head_ \notin Slots
  THEN <<>>
  ELSE FreeWalk(tree_[collision_head_].next_, Cardinality(Slots))

CollisionRegion == hashable_capacity_..(collision_head_ - 1)

\* C25: the slots of the collision region that hold no element are exactly
\* the slots of the collision free list, each once; an insert that takes a
\* collision slot while the list is not empty takes the first slot of the
\* list and leaves the region as long as it was.
ReuseStep ==
  (/\ Hybrid /\ status' = "ok" /\ op'.name = "insert" /\ op'.second = TRUE
   /\ capacity_' = capacity_
   /\ FreeSlots # <<>>
   /\ _get_full(tree_[_index_from_hash(This, _hash(This, op'.key))]
                  .fingerprint_full_clr_))
  => /\ Live' = Live \cup {Head(FreeSlots)}
     /\ collision_head_' = collision_head_
     /\ FreeSlots' = Tail(FreeSlots)

Reuse ==
  /\ [](Hybrid /\ status = "ok"
        => /\ \A a, b \in DOMAIN FreeSlots :
                FreeSlots[a] = FreeSlots[b] => a = b
           /\ {FreeSlots[a] : a \in DOMAIN FreeSlots} =
                {i \in CollisionRegion :
                   ~_get_full(tree_[i].fingerprint_full_clr_)})
  /\ [][ReuseStep]_vars

\* an insert has taken a slot from a free list of two slots and more
ReuseWitness ==
  /\ Hybrid /\ Returned("insert") /\ op.second = TRUE
  /\ FreeSlots # <<>>
  /\ op.first \in CollisionRegion
  /\ op.first + 1 < collision_head_

\* C26: an insert that adds an element in place claims a slot that was not
\* full: the slots that were full stay full with the key they held, and the
\* slot returned is the one more full slot, holding the new key.
FreshSlotStep ==
  (/\ Hybrid /\ status' = "ok" /\ op'.name = "insert" /\ op'.second = TRUE
   /\ capacity_' = capacity_)
  => /\ op'.first \notin Live
     /\ Live' = Live \cup {op'.first}
     /\ Tree'[op'.first].pair_ = op'.key
     /\ \A i \in Live : Tree'[i].pair_ = Tree[i].pair_

FreshSlot == [][FreshSlotStep]_vars

\* an insert has claimed a slot of the collision region while three elements
\* and more were live
FreshSlotWitness ==
  /\ Hybrid /\ Returned("insert") /\ op.second = TRUE
  /\ op.first \in CollisionRegion
  /\ tree_[op.first].pair_ = op.key
  /\ Cardinality(Live) >= 4

\* size_ + 1 > capacity_ * load_factor_, the test of
\* _validate_load_factor_bounds
LoadFactorReached == size_ + 1 > capacity_ * load_factor_
\* collision_head_ >= capacity_, the test of _validate_collision_space_bounds,
\* made by an insert of key when its home bucket is full and the free list
\* is empty
CollisionSpaceUsed(key) ==
  /\ _get_full(tree_[_index_from_hash(This, _hash(This, key))]
                 .fingerprint_full_clr_)
  /\ collision_tail_ = collision_head_
  /\ collision_head_ >= capacity_

\* an insert rehashes into a larger store only when one of the two tests
\* holds, and does so whenever it adds a key and makes a test that holds
RehashTriggerStep ==
  (Hybrid /\ status' = "ok" /\ op'.name = "insert")
  => /\ capacity_' # capacity_
        => /\ capacity_' > capacity_
           /\ op'.second = TRUE
           /\ LoadFactorReached \/ collision_head_ >= capacity_
     /\ (op'.second = TRUE
         /\ (LoadFactorReached \/ CollisionSpaceUsed(op'.key)))
        => capacity_' > capacity_

\* the elements live before an insert that rehashes are live after it
RehashKeepsStep ==
  (Hybrid /\ status' = "ok" /\ op'.name = "insert"
     /\ capacity_' # capacity_)
  => LiveKeys' = LiveKeys \cup {op'.key}

\* C27: an insert rehashes into a larger store exactly when size_ + 1 >
\* capacity_ * load_factor_ or collision_head_ >= capacity_ at the test it
\* makes, and every element live before the rehash is live after it.
RehashKeepsElements ==
  /\ [][RehashTriggerStep]_vars
  /\ [][RehashKeepsStep]_vars

RehashTrigger == [][RehashTriggerStep]_vars

\* C28: an insert of a new key into a flat tree with size_ == capacity_
\* doubles the capacity, or takes it to the cap next to the sentinel value
\* when the double is beyond it; the capacity is larger afterwards unless it
\* was the cap.
DoublingStep ==
  (/\ ~Hybrid /\ status = "ok" /\ op'.name = "insert"
   /\ op'.key \notin LiveKeys
   /\ Size = Capacity /\ Size < empty_index_)
  => /\ status' = "ok"
     /\ IF 2 * Capacity < empty_index_ THEN Capacity' = 2 * Capacity
        ELSE Capacity' \in {empty_index_ - 1, empty_index_}
     /\ Capacity' > Capacity \/ Capacity \in {empty_index_ - 1, empty_index_}

Doubling == [][DoublingStep]_vars

\* the slot of the live element next to slot i in comparator order, forward
\* or in reverse; empty_index_ when there is none
Neighbour(reverse, i) ==
  LET after == {j \in Live : IF reverse THEN compare_(Key(j), Key(i))
                                         ELSE compare_(Key(i), Key(j))}
  IN IF after = {} THEN empty_index_
     ELSE CHOOSE j \in after :
            \A o \in after : IF reverse THEN ~compare_(Key(j), Key(o))
                                         ELSE ~compare_(Key(o), Key(j))

\* C29: for every live element, in whatever slot, _next returns the slot of
\* the element with the smallest key greater than its key and _prev the slot
\* of the element with the largest key smaller than its key, and each
\* returns the sentinel when there is no such element.
SuccessorRule ==
  \A i \in Live : \A reverse \in BOOLEAN :
    /\ ~Increment(reverse, i).hang
    /\ ~Increment(reverse, i).oob
    /\ Increment(reverse, i).v = Neighbour(reverse, i)

FlatSuccessorRule == ~Hybrid => SuccessorRule

\* a rotation was the last step
Rotating == status' = "rotated"
\* the child slot the rotation of slot op'.key lifts
Lifted ==
  IF op'.name \in {"_rotateLeft", "_rotate_left"} THEN Tree[op'.key].right_
  ELSE Tree[op'.key].left_
\* the payloads of the pivot slot and of its child slot have changed places
PayloadSwapped ==
  /\ Tree'[op'.key].pair_ = Tree[Lifted].pair_
  /\ Tree'[Lifted].pair_ = Tree[op'.key].pair_
\* the slot s is the top of the rotated subtree: it has the parent the pivot
\* had, and that parent's child link, or the root index, refers to it
Top(s) ==
  /\ Tree'[s].parent_ = Tree[op'.key].parent_
  /\ IF Tree[op'.key].parent_ = empty_index_ THEN Root' = s
     ELSE /\ Root' = Root
          /\ IF Tree[Tree[op'.key].parent_].left_ = op'.key
             THEN Tree'[Tree[op'.key].parent_].left_ = s
             ELSE Tree'[Tree[op'.key].parent_].right_ = s

\* the statement for both containers: every rotation swaps the payloads and
\* leaves the pivot slot at the top of the subtree
RotationSwapsPayloadStep == Rotating => PayloadSwapped /\ Top(op'.key)

RotationSwapsPayload == [][RotationSwapsPayloadStep]_vars

\* C30: in the flat tree _rotateLeft and _rotateRight swap the payload and the
\* colour between the pivot slot and its child slot: the pivot slot stays at
\* the top of the rotated subtree with the child slot below it, the
\* grandparent's child link and the root index are as before, and no other
\* slot changes its payload. In the hybrid _rotate_left and _rotate_right
\* move no payload: the child slot becomes the top of the subtree with the
\* pivot slot below it, and the grandparent's child link, or the root index,
\* is set to the child slot.
RotationStep ==
  Rotating
  => IF Hybrid
     THEN /\ \A i \in Slots : Tree'[i].pair_ = Tree[i].pair_
          /\ Top(Lifted)
          /\ Tree'[op'.key].parent_ = Lifted
     ELSE /\ PayloadSwapped
          /\ Tree'[op'.key].color_ = Tree[Lifted].color_
          /\ Tree'[Lifted].color_ = Tree[op'.key].color_
          /\ Top(op'.key)
          /\ Tree'[Lifted].parent_ = op'.key
          /\ \A i \in Slots \ {op'.key, Lifted} :
                Tree'[i].pair_ = Tree[i].pair_

Rotation == [][RotationStep]_vars

\* a rotation of the flat tree was made on a node below the root: its slot is
\* still the one its parent refers to, and it holds the key its child held
RotationWitness ==
  /\ ~Hybrid /\ status = "rotated"
  /\ Tree[op.key].parent_ # empty_index_
  /\ op.key \in Children(Tree[op.key].parent_)
  /\ Children(op.key) # {}

\* C31: an erase of a present key k returns 1 and removes exactly k: the
\* other keys stay, the size is one less, and every key that stays is found
\* with its mapped value.
ErasesOneStep ==
  (status = "ok" /\ op'.name = "erase" /\ Present(op'.key))
  => /\ status' = "ok"
     /\ op'.first = TRUE
     /\ Size' = Size - 1
     /\ LiveKeys' = LiveKeys \ {op'.key}

ErasesOneReturnedStep ==
  (status' = "ok" /\ op'.name = "erase" /\ Present(op'.key))
  => /\ op'.first = TRUE
     /\ Size' = Size - 1
     /\ LiveKeys' = LiveKeys \ {op'.key}

ErasesOne ==
  /\ [](status = "ok"
        => \A k \in LiveKeys : ~At(k).hang /\ At(k).exc = "none"
                                /\ At(k).v = Mapped(k))
  /\ [][ErasesOneStep]_vars

ErasesOneReturned == [][ErasesOneReturnedStep]_vars

\* an index that is the sentinel or names a live slot
LiveOrEmpty(i) == i = empty_index_ \/ i \in Live

\* the links of the live slots, the root index and the caches of the hybrid
LinksInStore ==
  /\ \A i \in Live : /\ LiveOrEmpty(Tree[i].parent_)
                      /\ LiveOrEmpty(Tree[i].left_)
                      /\ LiveOrEmpty(Tree[i].right_)
  /\ LiveOrEmpty(Root)
  /\ Hybrid => /\ LiveOrEmpty(first_index_cache_)
               /\ LiveOrEmpty(last_index_cache_)

\* no call reads or writes outside the store
InStoreStep == status' # "crash" /\ ~op'.oob

\* C32: in every reachable state every parent, left and right link of a live
\* slot, the root index and both extrema caches are the sentinel or the index
\* of a live slot, and no call reads or writes a slot at the sentinel index
\* or beyond the store.
LinksLive ==
  /\ [](status = "ok" => LinksInStore)
  /\ [][InStoreStep]_vars

FlatLinksLive ==
  /\ [](~Hybrid /\ status = "ok" => LinksInStore)
  /\ [][~Hybrid => InStoreStep]_vars

\* the left and right links that leave the nodes reached from the root
TreeEdges ==
  {<<i, side>> \in (TreeNodes \cap Slots) \X {"left_", "right_"} :
     Tree[i][side] # empty_index_}

\* C33: in every reachable state the nodes reached from the root by left and
\* right links are exactly the live elements, each reached by one path, so
\* their number is size().
ReachableIsLive ==
  status = "ok"
  => /\ TreeNodes = Live
     /\ Cardinality(TreeEdges) = IF TreeNodes = {} THEN 0
                                 ELSE Cardinality(TreeNodes) - 1
     /\ Cardinality(TreeNodes) = Size

FlatReachableIsLive == ~Hybrid => ReachableIsLive

\* the slots met from slot i by next_ links, up to the one whose next_ is 0;
\* empty_index_ ends a walk that left the store or met more slots than
\* there are
RECURSIVE ChainFrom(_, _)
ChainFrom(i, fuel) ==
  IF fuel = 0 \/ i \notin Slots THEN <<empty_index_>>
  ELSE IF tree_[i].next_ = 0 THEN <<i>>
  ELSE <<i>> \o ChainFrom(tree_[i].next_, fuel - 1)

\* the collision chain of the bucket with home slot b
Chain(b) ==
  IF _get_full(tree_[b].fingerprint_full_clr_)
  THEN ChainFrom(b, Cardinality(Slots))
  ELSE <<>>

\* C34: in every reachable state the collision chain of each bucket starts
\* at the home slot, meets no slot twice and ends, holds only full slots
\* whose keys hash to the bucket, and every live element is on the chain of
\* its bucket, so on one chain, once.
Chains ==
  (Hybrid /\ status = "ok")
  => /\ \A b \in 0..(hashable_capacity_ - 1) :
          /\ \A x, y \in DOMAIN Chain(b) :
                Chain(b)[x] = Chain(b)[y] => x = y
          /\ \A x \in DOMAIN Chain(b) :
                Chain(b)[x] \in Live /\ Home(Chain(b)[x]) = b
     /\ \A i \in Live :
          \E x \in DOMAIN Chain(Home(i)) : Chain(Home(i))[x] = i

\* an erase has removed an element of a bucket whose chain still has two
\* slots and more
ChainsWitness ==
  /\ Hybrid /\ Returned("erase") /\ op.first = TRUE
  /\ \E b \in 0..(hashable_capacity_ - 1) :
       /\ Len(Chain(b)) >= 2
       /\ _index_from_hash(This, _hash(This, op.key)) = b

\* no insert or erase runs for ever
ReturnsStep == op'.name \in {"insert", "erase"} => status' # "hang"

\* find of every key and the step of an iterator from every live element
\* come to an end
LookupsEnd ==
  /\ \A k \in Keys : ~Find(k).hang
  /\ \A i \in Live : \A reverse \in BOOLEAN : ~Increment(reverse, i).hang

\* C35: from every reachable state every call of insert, erase and find
\* terminates, and so does the walk to the successor and the predecessor.
Terminates ==
  /\ [](status = "ok" => LookupsEnd)
  /\ [][ReturnsStep]_vars

FlatTerminates ==
  /\ [](~Hybrid /\ status = "ok" => LookupsEnd)
  /\ [][~Hybrid => ReturnsStep]_vars

\* lower_bound(key) and upper_bound(key)
LowerBound(key) ==
  IF Hybrid THEN _lower_bound(This, key) ELSE _notLessThan(FlatThis, key)
UpperBound(key) ==
  IF Hybrid THEN _upper_bound(This, key) ELSE _greaterThan(FlatThis, key)

\* the slot of the first element, in comparator order, of the live elements
\* picked by Wanted; empty_index_ when there is none
First(Wanted(_)) ==
  LET picked == {i \in Live : Wanted(Key(i))}
  IN IF picked = {} THEN empty_index_
     ELSE CHOOSE i \in picked : \A j \in picked : ~compare_(Key(j), Key(i))

\* C36: lower_bound(k) returns the first element in comparator order whose
\* key is not less than k and upper_bound(k) the first element whose key is
\* greater than k; each returns end when there is no such element.
Bounds ==
  status = "ok"
  => \A k \in Keys :
       /\ ~LowerBound(k).hang /\ ~LowerBound(k).oob
       /\ ~UpperBound(k).hang /\ ~UpperBound(k).oob
       /\ LET NotLess(x) == ~compare_(x, k)
              Greater(x) == compare_(k, x)
          IN /\ LowerBound(k).v = First(NotLess)
             /\ UpperBound(k).v = First(Greater)

HybridBounds == Hybrid => Bounds

\* a call of reserve or shrink_to_fit returns and leaves the size, the root
\* and every live slot as they were, and the capacity at size() or above
ReserveStep ==
  op'.name \in {"reserve", "shrink_to_fit"}
  => /\ status' = "ok"
     /\ Size' = Size /\ Root' = Root
     /\ \A i \in Live : i \in Slots' /\ Tree'[i] = Tree[i]
     /\ Capacity' >= Size'

\* an insert stays inside the store
GrowsStep == op'.name = "insert" => status' # "crash" /\ ~op'.oob

\* C37: reserve and shrink_to_fit leave the live elements and their order
\* unchanged and the capacity at size() or above, and the inserts that
\* follow still grow the store: they stay inside it and keep capacity() at
\* size() or above.
ReserveKeeps ==
  /\ [](status = "ok" => Capacity >= Size /\ LiveKeys = RKeys(gccRBTree))
  /\ [][ReserveStep]_vars
  /\ [][GrowsStep]_vars

\* From a state whose capacity covers its size, reserve and shrink_to_fit keep
\* the elements, the links and the root, and leave capacity() >= size().
ReserveOnly == [][status = "ok" /\ Capacity >= Size => ReserveStep]_vars

\* ------------------------------------------------------------ the cursors
\* a cursor: the container it was taken from, a slot or the sentinel, and its
\* direction
Handles == {"this", "that"}
Cursors ==
  [flatbase_ : Handles, index_ : Live \cup {empty_index_}, reverse_ : BOOLEAN]

\* flat_iterator::operator==; the direction is the template parameter
\* Reverse, so the two operands of a call have the same one
flat_iterator_eq(self, other) ==
  other.flatbase_ = self.flatbase_ /\ other.index_ = self.index_

FlatTreeIterator_eq_one_direction(self, other) ==
  other.flatbase_ = self.flatbase_ /\ other.index_ = self.index_

\* FlatTreeIterator::operator==
FlatTreeIterator_eq(self, other) ==
  other.flatbase_ = self.flatbase_ /\ other.index_ = self.index_
  /\ other.reverse_ = self.reverse_

\* self == other; the comparison is const and is not counted in calls
CompareCursors(self, other) ==
  /\ Ready
  /\ Hybrid => self.reverse_ = other.reverse_
  /\ op' = [name |-> "operator==", key |-> 0, first |-> empty_index_,
            second |-> IF Hybrid THEN flat_iterator_eq(self, other)
                       ELSE FlatTreeIterator_eq(self, other),
            oob |-> FALSE, self |-> self, other |-> other]
  /\ UNCHANGED <<container, droRBTree2, variant, hash_, status, calls,
                 gccRBTree>>

\* cursors are compared on containers of up to MaxCursorCalls inserts
MaxCursorCalls == 3

NextCursor ==
  /\ calls < MaxCursorCalls
  /\ \/ \E key \in Keys : Insert(key)
     \/ \E key \in Keys : FlatInsert(key)
     \/ \E self \in Cursors : \E other \in Cursors :
          CompareCursors(self, other)

SpecCursor == Init /\ [][NextCursor]_vars

\* C38: a comparison of two cursors returns true exactly when their container
\* handle, their index and their direction are all equal.
CursorEquality ==
  op.name = "operator=="
  => (op.second <=> /\ op.self.flatbase_ = op.other.flatbase_
                    /\ op.self.index_ = op.other.index_
                    /\ op.self.reverse_ = op.other.reverse_)

\* two cursors of one flat tree at the same element, one forward and one
\* reverse, were compared and found different
CursorEqualityWitness ==
  /\ ~Hybrid
  /\ op.name = "operator=="
  /\ op.self.flatbase_ = op.other.flatbase_
  /\ op.self.index_ = op.other.index_ /\ op.self.index_ # empty_index_
  /\ op.self.reverse_ # op.other.reverse_
  /\ ~op.second

\* ------------------------------------------------------------ the slot swap
\* what a slot swap leaves outside the container: the two slots it was
\* called with
Swapped(name, a, b, s) ==
  /\ status' = IF s.oob THEN "crash" ELSE "swapped"
  /\ op' = [name |-> name, key |-> 0, first |-> a, second |-> b,
            oob |-> s.oob]
  /\ calls' = calls + 1
  /\ UNCHANGED <<hash_, variant, gccRBTree>>

\* hash_flat_set: the call _swap_node_position(next, erase_index) that
\* _erase_hashmap makes for the element of a home slot whose chain goes on
SwapNodePosition(erase_index) ==
  /\ Ready /\ variant = "hash_flat_set"
  /\ erase_index < hashable_capacity_
  /\ _get_full(tree_[erase_index].fingerprint_full_clr_)
  /\ tree_[erase_index].next_ # 0
  /\ LET next == tree_[erase_index].next_
         s == _swap_node_position(This, next, erase_index)
     IN /\ tree_' = s.tree_ /\ root_' = s.root_
        /\ first_index_cache_' = s.first_index_cache_
        /\ last_index_cache_' = s.last_index_cache_
        /\ Swapped("_swap_node_position", next, erase_index, s)
  /\ UNCHANGED <<size_, capacity_, hashable_capacity_, collision_head_,
                 collision_tail_, droRBTree2>>

\* FlatRBTree: the call _swapNodePosition(uncle, node) that _fixInsert makes
\* for a node that has an uncle
FlatSwapNodePosition(node) ==
  /\ Ready /\ variant = "FlatSet"
  /\ node < droRBTree2.size_
  /\ droRBTree2.tree_[node].parent_ # empty_index_
  /\ LET parent == droRBTree2.tree_[node].parent_
         grandparent == droRBTree2.tree_[parent].parent_
     IN /\ grandparent # empty_index_
        /\ LET g == droRBTree2.tree_[grandparent]
               uncle == IF parent = g.left_ THEN g.right_ ELSE g.left_
               s == _swapNodePosition(FlatThis, uncle, node)
           IN /\ uncle # empty_index_
              /\ droRBTree2' = [droRBTree2 EXCEPT !.tree_ = s.tree_,
                                                  !.root_ = s.root_]
              /\ Swapped("_swapNodePosition", uncle, node, s)
  /\ UNCHANGED container

NextSwap ==
  \/ \E key \in Keys : Insert(key)
  \/ \E key \in Keys : FlatInsert(key)
  \/ \E erase_index \in DOMAIN tree_ : SwapNodePosition(erase_index)
  \/ \E node \in DOMAIN droRBTree2.tree_ : FlatSwapNodePosition(node)

SpecSwap == Init /\ [][NextSwap]_vars

Swapping == op'.name \in {"_swap_node_position", "_swapNodePosition"}

\* the slot that stands for slot i after the swap of slots a and b
Exchanged(a, b, i) == IF i = a THEN b ELSE IF i = b THEN a ELSE i

\* a swap returns; the element of each live slot is afterwards in the slot
\* exchanged for it, every tree link of it refers to the slot exchanged for
\* the one it referred to, and so does root_
SwapStep ==
  Swapping
  => LET a == op'.first
         b == op'.second
     IN /\ status' = "swapped"
        /\ Root' = Exchanged(a, b, Root)
        /\ \A i \in Live :
             LET j == Exchanged(a, b, i)
             IN /\ j \in Slots'
                /\ Tree'[j].pair_ = Tree[i].pair_
                /\ Tree'[j].parent_ = Exchanged(a, b, Tree[i].parent_)
                /\ Tree'[j].left_ = Exchanged(a, b, Tree[i].left_)
                /\ Tree'[j].right_ = Exchanged(a, b, Tree[i].right_)

\* C39: _swap_node_position and _swapNodePosition exchange the positions of
\* their two slots: every link that referred to one refers to the other
\* afterwards, and root_ refers to the other slot if it referred to one.
SwapExchanges == [][SwapStep]_vars

\* the same of the flat tree alone
FlatSwapExchanges == [][~Hybrid => SwapStep]_vars

\* the same of the hybrid when neither slot is the root, the slots are not
\* parent and child and are not the two children of one node
ApartSwapExchanges ==
  [][(/\ Hybrid /\ Swapping
      /\ LET a == op'.first
             b == op'.second
         IN /\ Root \notin {a, b}
            /\ Tree[a].parent_ \notin {b, Tree[b].parent_}
            /\ Tree[b].parent_ # a) => SwapStep]_vars

\* ------------------------------------------------------------ the full flag
\* the fingerprint find derives from the hash of the key of slot i
KeyFingerprint(i) == _get_fingerprint(_hash(This, tree_[i].pair_))

\* C40: in every reachable state the slots whose full flag is set are the
\* slots that hold the elements of the container: there are size() of them,
\* no two hold the same key, the lookup of the key of each ends at it, and
\* the fingerprint stored in each is the one derived from the hash of its key.
FullFlags ==
  (Hybrid /\ status = "ok")
  => /\ Cardinality(Live) = size_
     /\ \A i, j \in Live : tree_[i].pair_ = tree_[j].pair_ => i = j
     /\ \A i \in Live :
          /\ _find(This, tree_[i].pair_).first = i
          /\ _get_fingerprint(tree_[i].fingerprint_full_clr_)
               = KeyFingerprint(i)

\* an erase has left, in the home slot of the bucket of the erased key, a
\* black element of that bucket whose fingerprint is not 0, and a slot of the
\* collision region that is not full
FullFlagsWitness ==
  /\ Hybrid /\ Returned("erase") /\ op.first = TRUE
  /\ LET home == _index_from_hash(This, _hash(This, op.key))
     IN /\ home \in Live
        /\ tree_[home].pair_ # op.key
        /\ KeyFingerprint(home) # 0
        /\ _get_color(tree_[home].fingerprint_full_clr_) = BLACK_
  /\ \E j \in CollisionRegion : j \notin Live

\* the same, measured against the calls made: the keys of the full slots are
\* the keys inserted and not erased
FullFlagsOfCalls ==
  (Hybrid /\ status = "ok") => LiveKeys = RKeys(gccRBTree)

====
